---- MODULE Spec2Model ----
(***************************************************************************)
(* Single-elimination bracket engine: BracketService over the DB record    *)
(* store, with the parts of TournamentService and ParticipantService it    *)
(* drives (start, canStart, getByTournament, eliminate), and with          *)
(* ParticipantService.delete, which writes match records.                  *)
(*                                                                         *)
(* The DB collections are sequences in insertion order (DB.insert pushes,  *)
(* DB.update keeps the position, DB.deleteWhere filters).  Record ids are  *)
(* opaque unique strings in the code; here they are positive integers and  *)
(* an insert takes the smallest id no stored record of the collection has. *)
(* null is Null (0) for ids, dates and seeds, NoScore for scores, and      *)
(* NoRound for eliminatedAtRound.  Of the dates only endDate is kept; the  *)
(* display fields (name, schedule, venue, notes, logo, ...) are left out.  *)
(***************************************************************************)
EXTENDS Integers, Sequences, FiniteSets, TLC

VARIABLES tournaments, participants, matches, results, outcome, rescored,
          running

vars == <<tournaments, participants, matches, results, outcome, rescored, running>>

(***************************************************************************)
(* Bounds and input domains                                                *)
(***************************************************************************)
\* how many calls outside a tournament's usual course one generated bracket
\* takes: updateScore on a completed match, assignParticipants on its own, a
\* call begun while another caller's call is under way
MaxRescore == 1

Null == 0
NoScore == -2
NoRound == 0
Today == 1
\* Math.log2 of a count that is not a power of two: no whole number
NotWhole == -1

TournamentIds == {1}

\* participantCount values of the modelled tournaments: create admits 4, 8,
\* 16, 32, 64; TournamentService.update sets any value while in draft
Counts == {1, 2, 4, 8}

\* the counts of the tournaments that the throwing calls are run on, with
\* values TournamentService.update lets a draft take that generate rejects
CountsAll == {-2, 2, 3, 4}

\* and their rosters
RostersAll == { <<2, 1>>, <<1, 2, 3>>, <<3, 1, 4, 2>> }

\* score arguments handed to updateScore
Scores == -1 .. 1

\* rosters (the seed of each registered participant, in registration order;
\* Null = unseeded) a tournament may hold when the bracket work begins
Rosters ==
    { <<1>>,
      <<2, 1>>,
      <<1, 2, 3>>,
      <<3, 1, 4, 2>>,
      <<Null, 2, Null, 1>>,
      <<1, 2, 3, 4, 5>>,
      <<5, 3, 8, 1, 7, 2, 6, 4>> }

MatchIds == 1 .. 8

\* match ids and score pairs handed to the updateScore calls that throw
MatchIdsAll == 1 .. 4

ScorePairsAll == { <<-1, -1>>, <<-1, 1>>, <<0, 0>>, <<1, 0>> }

\* participant ids handed to ParticipantService.delete
ParticipantIds == 1 .. 2

(***************************************************************************)
(* Arithmetic helpers                                                      *)
(***************************************************************************)
RECURSIVE Pow2(_)
Pow2(k) == IF k <= 0 THEN 1 ELSE 2 * Pow2(k - 1)

RECURSIVE BitAnd(_, _)
BitAnd(a, b) ==
    IF a = 0 \/ b = 0 THEN 0
    ELSE (a % 2) * (b % 2) + 2 * BitAnd(a \div 2, b \div 2)

\* BracketService.isPowerOfTwo
isPowerOfTwo(n) == n > 0 /\ BitAnd(n, n - 1) = 0

\* Math.log2 on the powers of two
RECURSIVE Log2(_)
Log2(n) == IF n <= 1 THEN 0 ELSE 1 + Log2(n \div 2)

Min(S) == CHOOSE x \in S : \A y \in S : x <= y

Range(s) == { s[i] : i \in DOMAIN s }

(***************************************************************************)
(* Array.prototype.sort: a stable sort by a comparator that is negative    *)
(* when its first argument sorts before its second.  The comparator is     *)
(* handed over as the function cmp[a, b] on the elements of s.  Element i  *)
(* of the input lands at a position given by how many elements sort        *)
(* before it.                                                              *)
(***************************************************************************)
StableSort(s, cmp) ==
    LET before(i) ==
            { j \in DOMAIN s : \/ cmp[s[j], s[i]] < 0
                               \/ (cmp[s[j], s[i]] = 0 /\ j < i) }
        at(r) == CHOOSE i \in DOMAIN s : Cardinality(before(i)) = r - 1
    IN  [r \in DOMAIN s |-> s[at(r)]]

ByMatchNumber(a, b) == a.matchNumber - b.matchNumber

\* .sort((a, b) => a.matchNumber - b.matchNumber)
SortByMatchNumber(s) ==
    StableSort(s, [a \in Range(s), b \in Range(s) |-> ByMatchNumber(a, b)])

(***************************************************************************)
(* DB record store                                                         *)
(***************************************************************************)
\* DB.generateId: an id no stored record of the collection has
generateId(coll) == Min((1 .. Len(coll) + 1) \ { coll[i].id : i \in DOMAIN coll })

\* DB.insert
DBInsert(coll, item) == Append(coll, [item EXCEPT !.id = generateId(coll)])

\* items.findIndex(item => item.id === id): the first position holding the
\* id, 0 for a miss
DBIndex(coll, id) ==
    LET hits == { i \in DOMAIN coll : coll[i].id = id } IN
    IF hits = {} THEN 0 ELSE Min(hits)

DBHas(coll, id) == DBIndex(coll, id) # 0

\* DB.getById: the first record with the id (DBHas: there is one)
DBGet(coll, id) == coll[DBIndex(coll, id)]

\* DB.update: shallow merge of the partial record into the stored one; a miss
\* changes nothing
DBUpdate(coll, id, updates) ==
    IF ~DBHas(coll, id) THEN coll
    ELSE [coll EXCEPT ![DBIndex(coll, id)] =
            [f \in DOMAIN @ |-> IF f \in DOMAIN updates THEN updates[f] ELSE @[f]]]

\* DB.find by tournamentId
FindByTournament(coll, tid) == SelectSeq(coll, LAMBDA r : r.tournamentId = tid)

\* DB.find(MATCHES, {tournamentId, round})
FindByRound(tid, round) ==
    SelectSeq(matches, LAMBDA m : m.tournamentId = tid /\ m.round = round)

DeleteWhere_None(coll, tid) == coll

DeleteWhere_Everything(coll, tid) == <<>>

\* DB.deleteWhere(key, {tournamentId})
DeleteWhere(coll, tid) == SelectSeq(coll, LAMBDA r : r.tournamentId # tid)

\* the callers whose calls may be under way at the same time, and a caller
\* with no call under way
Procs == 1 .. 2

Idle == [pc |-> "idle"]

(***************************************************************************)
(* Initial state: one draft tournament per id as TournamentService.create  *)
(* leaves it, with a roster as ParticipantService.add leaves it, and no    *)
(* match or result.                                                        *)
(***************************************************************************)
NewTournament(n) ==
    [ status |-> "draft", participantCount |-> n,
      totalRounds |-> IF isPowerOfTwo(n) THEN Log2(n) ELSE NotWhole,
      currentRound |-> 1, endDate |-> Null ]

NewParticipant(i, tid, seed) ==
    [ id |-> i, tournamentId |-> tid, seed |-> seed, status |-> "active",
      eliminatedAtRound |-> NoRound ]

Init ==
    /\ tournaments \in [TournamentIds -> { NewTournament(n) : n \in Counts }]
    /\ \E roster \in Rosters :
          participants = [i \in DOMAIN roster |-> NewParticipant(i, 1, roster[i])]
    /\ matches = <<>>
    /\ results = <<>>
    /\ outcome = [op |-> "create", err |-> "ok"]
    /\ rescored = 0
    /\ running = [p \in Procs |-> Idle]

\* the same with the counts of CountsAll
InitAll ==
    /\ tournaments \in [TournamentIds -> { NewTournament(n) : n \in CountsAll }]
    /\ \E roster \in RostersAll :
          participants = [i \in DOMAIN roster |-> NewParticipant(i, 1, roster[i])]
    /\ matches = <<>>
    /\ results = <<>>
    /\ outcome = [op |-> "create", err |-> "ok"]
    /\ rescored = 0
    /\ running = [p \in Procs |-> Idle]

\* a call that throws before its first write: the caller sees the error
Fail(op, err) ==
    /\ outcome' = [op |-> op, err |-> err]
    /\ UNCHANGED <<tournaments, participants, matches, results, rescored, running>>

(***************************************************************************)
(* BracketService.generate                                                 *)
(***************************************************************************)
NewMatch(tid, round, matchNumber) ==
    [ id |-> Null, tournamentId |-> tid, round |-> round,
      matchNumber |-> matchNumber,
      participant1Id |-> Null, participant2Id |-> Null, winnerId |-> Null,
      score1 |-> NoScore, score2 |-> NoScore, status |-> "pending" ]

MatchesInRound_RoundOff(participantCount, round) ==
    participantCount \div Pow2(round + 1)

\* matchesInRound = participantCount / Math.pow(2, round)
MatchesInRound(participantCount, round) == participantCount \div Pow2(round)

\* the loops of generate with the number restarting at 1 in every round
RECURSIVE GenerateLoop_PerRound(_, _, _, _, _, _, _)
GenerateLoop_PerRound(ms, tid, participantCount, totalRounds, round, i, n) ==
    IF round > totalRounds THEN ms
    ELSE IF i < MatchesInRound(participantCount, round)
         THEN GenerateLoop_PerRound(DBInsert(ms, NewMatch(tid, round, i + 1)),
                                    tid, participantCount, totalRounds,
                                    round, i + 1, n)
         ELSE GenerateLoop_PerRound(ms, tid, participantCount, totalRounds,
                                    round + 1, 0, n)

\* the two nested loops of generate: round 1..totalRounds, i 0..matchesInRound-1,
\* one running matchNumber
RECURSIVE GenerateLoop(_, _, _, _, _, _, _)
GenerateLoop(ms, tid, participantCount, totalRounds, round, i, matchNumber) ==
    IF round > totalRounds THEN ms
    ELSE IF i < MatchesInRound(participantCount, round)
         THEN GenerateLoop(DBInsert(ms, NewMatch(tid, round, matchNumber)),
                           tid, participantCount, totalRounds,
                           round, i + 1, matchNumber + 1)
         ELSE GenerateLoop(ms, tid, participantCount, totalRounds,
                           round + 1, 0, matchNumber)

GenerateMatches(ms, tid, participantCount) ==
    GenerateLoop(ms, tid, participantCount, Log2(participantCount), 1, 0, 1)

GenerateError_NoStatusCheck(tid) ==
    IF ~isPowerOfTwo(tournaments[tid].participantCount) THEN "InvalidTopology"
    ELSE "ok"

GenerateError_NoTopologyCheck(tid) ==
    IF tournaments[tid].status # "draft" THEN "AlreadyGenerated" ELSE "ok"

\* the throws of generate, in order ("ok" when none is taken)
GenerateError(tid) ==
    LET t == tournaments[tid] IN
    IF t.status # "draft" THEN "AlreadyGenerated"
    ELSE IF ~isPowerOfTwo(t.participantCount) THEN "InvalidTopology"
    ELSE "ok"

Generate(tid) ==
    LET t == tournaments[tid] IN
    /\ GenerateError(tid) = "ok"
    /\ matches' = GenerateMatches(matches, tid, t.participantCount)
    /\ tournaments' = [tournaments EXCEPT
           ![tid].status = "registration",
           ![tid].totalRounds = Log2(t.participantCount)]
    /\ outcome' = [op |-> "generate", err |-> "ok"]
    /\ UNCHANGED <<participants, results, rescored, running>>

GenerateFails(tid) ==
    /\ GenerateError(tid) # "ok"
    /\ Fail("generate", GenerateError(tid))

(***************************************************************************)
(* ParticipantService                                                      *)
(***************************************************************************)
\* (a.seed || 999) - (b.seed || 999)
SeedOr999(p) == IF p.seed # Null THEN p.seed ELSE 999

BySeedOr999(a, b) == SeedOr999(a) - SeedOr999(b)

\* ParticipantService.getByTournament
getByTournament(tid) ==
    LET found == FindByTournament(participants, tid) IN
    StableSort(found, [a \in Range(found), b \in Range(found) |-> BySeedOr999(a, b)])

\* ParticipantService.eliminate
eliminate(ps, id, round) ==
    DBUpdate(ps, id, [status |-> "eliminated", eliminatedAtRound |-> round])

(***************************************************************************)
(* BracketService.assignParticipants                                       *)
(***************************************************************************)
BySeed_Or999(a, b) == SeedOr999(a) - SeedOr999(b)

\* the comparator of sortedParticipants: seeded first by seed, unseeded after
BySeed(a, b) ==
    IF a.seed # Null /\ b.seed # Null THEN a.seed - b.seed
    ELSE IF a.seed # Null THEN -1
    ELSE IF b.seed # Null THEN 1
    ELSE 0

createSeedPairings_Adjacent(ps) ==
    LET n == Len(ps) IN
    [i \in 1 .. ((n + 1) \div 2) |->
        <<ps[2 * i - 1], ps[IF 2 * i <= n THEN 2 * i ELSE n]>>]

\* BracketService.createSeedPairings: pair i is (p[i], p[n-1-i]) for i < n/2
\* (sequences are 1-based here)
createSeedPairings(ps) ==
    LET n == Len(ps) IN
    [i \in 1 .. ((n + 1) \div 2) |-> <<ps[i], ps[n + 1 - i]>>]

\* pairedParticipants.forEach: pair index goes to firstRoundMatches[index]
RECURSIVE AssignLoop(_, _, _, _)
AssignLoop(ms, pairs, firstRoundMatches, index) ==
    IF index > Len(pairs) THEN ms
    ELSE IF index \in DOMAIN firstRoundMatches
         THEN AssignLoop(DBUpdate(ms, firstRoundMatches[index].id,
                            [participant1Id |-> pairs[index][1].id,
                             participant2Id |-> pairs[index][2].id,
                             status |-> "upcoming"]),
                         pairs, firstRoundMatches, index + 1)
         ELSE AssignLoop(ms, pairs, firstRoundMatches, index + 1)

AssignedMatches(tid) ==
    LET firstRoundMatches == SortByMatchNumber(FindByRound(tid, 1))
        ps == getByTournament(tid)
        sortedParticipants ==
            StableSort(ps, [a \in Range(ps), b \in Range(ps) |-> BySeed(a, b)])
    IN  AssignLoop(matches, createSeedPairings(sortedParticipants),
                   firstRoundMatches, 1)

AssignError_OnlyFewer(tid) ==
    IF Len(getByTournament(tid)) < tournaments[tid].participantCount
    THEN "IncompleteRoster" ELSE "ok"

\* the throw of assignParticipants ("ok" when it is not taken)
AssignError(tid) ==
    IF Len(getByTournament(tid)) # tournaments[tid].participantCount
    THEN "IncompleteRoster" ELSE "ok"

\* BracketService.assignParticipants called on its own
AssignParticipants(tid) ==
    /\ AssignError(tid) = "ok"
    /\ rescored < MaxRescore
    /\ rescored' = rescored + 1
    /\ matches' = AssignedMatches(tid)
    /\ outcome' = [op |-> "assignParticipants", err |-> "ok"]
    /\ UNCHANGED <<tournaments, participants, results, running>>

AssignParticipantsFails(tid) ==
    /\ AssignError(tid) # "ok"
    /\ Fail("assignParticipants", AssignError(tid))

(***************************************************************************)
(* TournamentService.start, with canStart and assignParticipants           *)
(***************************************************************************)
\* the failures of start, in order: the two of canStart, then the throw of
\* assignParticipants ("ok" when none is taken)
StartError(tid) ==
    LET t == tournaments[tid]
        stored == Len(FindByTournament(participants, tid))
    IN
    IF t.status # "registration" THEN "NotRegistration"
    ELSE IF stored < t.participantCount THEN "IncompleteRoster"
    ELSE IF Len(getByTournament(tid)) # t.participantCount THEN "IncompleteRoster"
    ELSE "ok"

Start(tid) ==
    /\ StartError(tid) = "ok"
    /\ matches' = AssignedMatches(tid)
    /\ tournaments' = [tournaments EXCEPT ![tid].status = "ongoing"]
    /\ outcome' = [op |-> "start", err |-> "ok"]
    /\ UNCHANGED <<participants, results, rescored, running>>

StartFails(tid) ==
    /\ StartError(tid) # "ok"
    /\ Fail("start", StartError(tid))

(***************************************************************************)
(* BracketService.updateScore and what it calls                            *)
(***************************************************************************)
\* BracketService.getFirstMatchNumberOfRound
RECURSIVE FirstLoop(_, _, _, _)
FirstLoop(participantCount, round, r, matchNumber) ==
    IF r < round
    THEN FirstLoop(participantCount, round, r + 1,
                   matchNumber + participantCount \div Pow2(r))
    ELSE matchNumber

getFirstMatchNumberOfRound_FromZero(ts, tid, round) ==
    FirstLoop(ts[tid].participantCount, round, 1, 0)

getFirstMatchNumberOfRound(ts, tid, round) ==
    FirstLoop(ts[tid].participantCount, round, 1, 1)

SlotUpdate_ParityFlipped(matchIndexInRound, winnerId) ==
    IF matchIndexInRound % 2 = 0
    THEN [participant2Id |-> winnerId]
    ELSE [participant1Id |-> winnerId]

\* the slot a winner takes in the next round's match
SlotUpdate(matchIndexInRound, winnerId) ==
    IF matchIndexInRound % 2 = 0
    THEN [participant1Id |-> winnerId]
    ELSE [participant2Id |-> winnerId]

NextMatchIndex_Same(matchIndexInRound) == matchIndexInRound

\* Math.floor(matchIndexInRound / 2)
NextMatchIndex(matchIndexInRound) == matchIndexInRound \div 2

\* nextMatchNumber and the slot of advanceWinner, from the numbers alone
Destination(participantCount, round, matchNumber) ==
    LET matchIndexInRound == matchNumber - FirstLoop(participantCount, round, 1, 1) IN
    [ matchNumber |-> FirstLoop(participantCount, round + 1, 1, 1)
                         + (matchIndexInRound \div 2),
      slot |-> IF matchIndexInRound % 2 = 0 THEN 1 ELSE 2 ]

\* advanceWinner marking the destination upcoming with the first arrival
advanceWinner_UpcomingAtOnce(ms, ts, match, winnerId) ==
    LET tid == match.tournamentId
        nextRound == match.round + 1
        matchIndexInRound ==
            match.matchNumber - getFirstMatchNumberOfRound(ts, tid, match.round)
        nextMatchIndex == NextMatchIndex(matchIndexInRound)
        nextMatches ==
            SortByMatchNumber(SelectSeq(ms, LAMBDA m : m.tournamentId = tid
                                                     /\ m.round = nextRound))
    IN
    IF nextRound > ts[tid].totalRounds THEN ms
    ELSE IF (nextMatchIndex + 1) \notin DOMAIN nextMatches THEN ms
    ELSE LET nextMatch == nextMatches[nextMatchIndex + 1]
             updates == SlotUpdate(matchIndexInRound, winnerId)
             updatedData == DBGet(DBUpdate(ms, nextMatch.id, updates), nextMatch.id)
         IN  IF updatedData.participant1Id # Null \/ updatedData.participant2Id # Null
             THEN DBUpdate(DBUpdate(ms, nextMatch.id, updates), nextMatch.id,
                           [status |-> "upcoming"])
             ELSE DBUpdate(ms, nextMatch.id, updates)

\* BracketService.advanceWinner: the matches collection after it
advanceWinner(ms, ts, match, winnerId) ==
    LET tid == match.tournamentId
        nextRound == match.round + 1
        matchIndexInRound ==
            match.matchNumber - getFirstMatchNumberOfRound(ts, tid, match.round)
        nextMatchIndex == NextMatchIndex(matchIndexInRound)
        nextMatches ==
            SortByMatchNumber(SelectSeq(ms, LAMBDA m : m.tournamentId = tid
                                                     /\ m.round = nextRound))
    IN
    IF nextRound > ts[tid].totalRounds THEN ms
    ELSE IF (nextMatchIndex + 1) \notin DOMAIN nextMatches THEN ms
    ELSE LET nextMatch == nextMatches[nextMatchIndex + 1]
             updates == SlotUpdate(matchIndexInRound, winnerId)
             updatedData == DBGet(DBUpdate(ms, nextMatch.id, updates), nextMatch.id)
         IN  IF updatedData.participant1Id # Null /\ updatedData.participant2Id # Null
             THEN DBUpdate(DBUpdate(ms, nextMatch.id, updates), nextMatch.id,
                           [status |-> "upcoming"])
             ELSE DBUpdate(ms, nextMatch.id, updates)

RECURSIVE FirstOpenRound_AnyCompleted(_, _, _, _)
FirstOpenRound_AnyCompleted(ms, tid, totalRounds, round) ==
    IF round > totalRounds THEN Null
    ELSE IF \E i \in DOMAIN ms :
               /\ ms[i].tournamentId = tid /\ ms[i].round = round
               /\ ms[i].status = "completed"
         THEN FirstOpenRound_AnyCompleted(ms, tid, totalRounds, round + 1)
         ELSE round

\* the first round of 1..totalRounds with a match that is not completed, or
\* Null when the loop of updateCurrentRound runs out
RECURSIVE FirstOpenRound(_, _, _, _)
FirstOpenRound(ms, tid, totalRounds, round) ==
    IF round > totalRounds THEN Null
    ELSE IF \A i \in DOMAIN ms :
               (ms[i].tournamentId = tid /\ ms[i].round = round)
                   => ms[i].status = "completed"
         THEN FirstOpenRound(ms, tid, totalRounds, round + 1)
         ELSE round

\* BracketService.updateCurrentRound: the tournaments after it
updateCurrentRound(ts, ms, tid) ==
    LET round == FirstOpenRound(ms, tid, ts[tid].totalRounds, 1) IN
    IF round # Null /\ ts[tid].currentRound # round
    THEN [ts EXCEPT ![tid].currentRound = round]
    ELSE ts

ThirdPlaceIds_FinalRound(ms, tid, totalRounds) ==
    LET semiFinalMatches ==
            SelectSeq(ms, LAMBDA m : m.tournamentId = tid /\ m.round = totalRounds)
        decided == SelectSeq(semiFinalMatches, LAMBDA m : m.winnerId # Null)
        losers == [i \in DOMAIN decided |->
                      IF decided[i].participant1Id = decided[i].winnerId
                      THEN decided[i].participant2Id
                      ELSE decided[i].participant1Id]
    IN  SelectSeq(losers, LAMBDA id : id # Null)

\* the third-place list of finalizeTournament: the semi-final losers
ThirdPlaceIds(ms, tid, totalRounds) ==
    LET semiFinalMatches ==
            SelectSeq(ms, LAMBDA m : m.tournamentId = tid
                                     /\ m.round = totalRounds - 1)
        decided == SelectSeq(semiFinalMatches, LAMBDA m : m.winnerId # Null)
        losers == [i \in DOMAIN decided |->
                      IF decided[i].participant1Id = decided[i].winnerId
                      THEN decided[i].participant2Id
                      ELSE decided[i].participant1Id]
    IN  SelectSeq(losers, LAMBDA id : id # Null)

\* the Result record finalizeTournament inserts
NewResult(ms, ts, tid, championId, runnerUpId) ==
    [ id |-> Null, tournamentId |-> tid, championId |-> championId,
      runnerUpId |-> runnerUpId,
      thirdPlaceIds |-> ThirdPlaceIds(ms, tid, ts[tid].totalRounds),
      totalMatches |-> Len(FindByTournament(ms, tid)),
      totalParticipants |-> ts[tid].participantCount ]

\* the tournament update of finalizeTournament
Finalized(ts, tid) ==
    [ts EXCEPT ![tid].status = "completed",
               ![tid].currentRound = ts[tid].totalRounds,
               ![tid].endDate = Today]

LoserOf_Winner(match, score1, score2) ==
    IF score1 > score2 THEN match.participant1Id ELSE match.participant2Id

\* winnerId and loserId of updateScore
WinnerOf(match, score1, score2) ==
    IF score1 > score2 THEN match.participant1Id ELSE match.participant2Id

LoserOf(match, score1, score2) ==
    IF score1 > score2 THEN match.participant2Id ELSE match.participant1Id

\* neither score check of updateScore throws
ValidScores(score1, score2) == ~(score1 < 0 \/ score2 < 0) /\ score1 # score2

UpdateScoreError_ScoresFirst(matchId, score1, score2) ==
    IF ~DBHas(matches, matchId) THEN "NotFound"
    ELSE
    LET match == DBGet(matches, matchId) IN
    IF score1 = score2 THEN "DrawNotAllowed"
    ELSE IF score1 < 0 \/ score2 < 0 THEN "InvalidScore"
    ELSE IF match.status = "pending" THEN "MatchNotReady"
    ELSE IF match.participant1Id = Null \/ match.participant2Id = Null
         THEN "IncompleteMatch"
    ELSE "ok"

UpdateScoreError_NoReadyCheck(matchId, score1, score2) ==
    IF ~DBHas(matches, matchId) THEN "NotFound"
    ELSE IF score1 < 0 \/ score2 < 0 THEN "InvalidScore"
    ELSE IF score1 = score2 THEN "DrawNotAllowed"
    ELSE "ok"

UpdateScoreError_RejectsCompleted(matchId, score1, score2) ==
    IF ~DBHas(matches, matchId) THEN "NotFound"
    ELSE
    LET match == DBGet(matches, matchId) IN
    IF match.status \in {"pending", "completed"} THEN "MatchNotReady"
    ELSE IF match.participant1Id = Null \/ match.participant2Id = Null
         THEN "IncompleteMatch"
    ELSE IF score1 < 0 \/ score2 < 0 THEN "InvalidScore"
    ELSE IF score1 = score2 THEN "DrawNotAllowed"
    ELSE "ok"

\* the throws of updateScore, in order ("ok" when none is taken)
UpdateScoreError(matchId, score1, score2) ==
    IF ~DBHas(matches, matchId) THEN "NotFound"
    ELSE
    LET match == DBGet(matches, matchId) IN
    IF match.status = "pending" THEN "MatchNotReady"
    ELSE IF match.participant1Id = Null \/ match.participant2Id = Null
         THEN "IncompleteMatch"
    ELSE IF score1 < 0 \/ score2 < 0 THEN "InvalidScore"
    ELSE IF score1 = score2 THEN "DrawNotAllowed"
    ELSE "ok"

UpdateScore(matchId, score1, score2) ==
    LET match == DBGet(matches, matchId)
        winnerId == WinnerOf(match, score1, score2)
        loserId == LoserOf(match, score1, score2)
        tid == match.tournamentId
        scoredMatches ==
            DBUpdate(matches, matchId,
                     [score1 |-> score1, score2 |-> score2,
                      winnerId |-> winnerId, status |-> "completed"])
        advanced == advanceWinner(scoredMatches, tournaments, match, winnerId)
    IN
    /\ ValidScores(score1, score2)
    /\ UpdateScoreError(matchId, score1, score2) = "ok"
    /\ match.status = "completed" => rescored < MaxRescore
    /\ rescored' = IF match.status = "completed" THEN rescored + 1 ELSE rescored
    /\ matches' = advanced
    /\ participants' = eliminate(participants, loserId, match.round)
    /\ IF match.round = tournaments[tid].totalRounds
       THEN /\ results' = DBInsert(results,
                   NewResult(advanced, tournaments, tid, winnerId, loserId))
            /\ tournaments' = Finalized(tournaments, tid)
       ELSE /\ results' = results
            /\ tournaments' = updateCurrentRound(tournaments, advanced, tid)
    /\ outcome' = [op |-> "updateScore", err |-> "ok"]
    /\ UNCHANGED running

UpdateScoreFails(matchId, score1, score2) ==
    /\ UpdateScoreError(matchId, score1, score2) # "ok"
    /\ Fail("updateScore", UpdateScoreError(matchId, score1, score2))

(***************************************************************************)
(* BracketService.reset                                                    *)
(***************************************************************************)
ResetError_Never(tid) == "ok"

\* the throw of reset ("ok" when it is not taken)
ResetError(tid) ==
    IF tournaments[tid].status = "completed" THEN "CannotResetCompleted" ELSE "ok"

Restored_Kept(ps, tid) == ps

\* the participants of the tournament set back to active
Restored(ps, tid) ==
    [i \in DOMAIN ps |->
        IF ps[i].tournamentId = tid
        THEN [ps[i] EXCEPT !.status = "active", !.eliminatedAtRound = NoRound]
        ELSE ps[i]]

\* BracketService.reset: what it does to the store
ResetStore(tid) ==
    /\ ResetError(tid) = "ok"
    /\ matches' = DeleteWhere(matches, tid)
    /\ results' = DeleteWhere(results, tid)
    /\ participants' = Restored(participants, tid)
    /\ tournaments' = [tournaments EXCEPT
           ![tid].status = "draft", ![tid].currentRound = 1]
    /\ outcome' = [op |-> "reset", err |-> "ok"]

\* with one tournament a reset starts the count of calls outside the usual
\* course afresh
Reset(tid) ==
    /\ ResetStore(tid)
    /\ rescored' = 0
    /\ UNCHANGED running

ResetFails(tid) ==
    /\ ResetError(tid) # "ok"
    /\ Fail("reset", ResetError(tid))

(***************************************************************************)
(* ParticipantService.delete                                               *)
(***************************************************************************)
\* the throws of delete, in order ("ok" when none is taken)
DeleteError(pid) ==
    IF ~DBHas(participants, pid) THEN "NotFound"
    ELSE IF tournaments[DBGet(participants, pid).tournamentId].status
               \in {"ongoing", "completed"}
         THEN "CannotDelete"
    ELSE "ok"

\* the slots of the tournament's matches that hold the participant are emptied
Unassigned(ms, tid, pid) ==
    [i \in DOMAIN ms |->
        IF ms[i].tournamentId = tid
        THEN [ms[i] EXCEPT
                 !.participant1Id = IF @ = pid THEN Null ELSE @,
                 !.participant2Id = IF @ = pid THEN Null ELSE @]
        ELSE ms[i]]

DeleteParticipant(pid) ==
    /\ DeleteError(pid) = "ok"
    /\ matches' = Unassigned(matches, DBGet(participants, pid).tournamentId, pid)
    /\ participants' = SelectSeq(participants, LAMBDA p : p.id # pid)
    /\ outcome' = [op |-> "deleteParticipant", err |-> "ok"]
    /\ UNCHANGED <<tournaments, results, rescored, running>>

DeleteParticipantFails(pid) ==
    /\ DeleteError(pid) # "ok"
    /\ Fail("deleteParticipant", DeleteError(pid))

Next ==
    \/ \E tid \in TournamentIds : Generate(tid)
    \/ \E tid \in TournamentIds : Start(tid)
    \/ \E matchId \in MatchIds, score1, score2 \in Scores :
          UpdateScore(matchId, score1, score2)
    \/ \E tid \in TournamentIds : Reset(tid)

\* the calls that return normally
Spec == Init /\ [][Next]_vars

(***************************************************************************)
(* BracketService.getBracket                                               *)
(***************************************************************************)
getRoundName_CountedFromStart(round, totalRounds) ==
    CASE round = totalRounds -> "Final"
      [] round = 1 /\ totalRounds > 1 -> "Semi Final"
      [] round = 2 /\ totalRounds > 2 -> "Quarter Final"
      [] OTHER -> "Round " \o ToString(round)

\* BracketService.getRoundName
getRoundName(round, totalRounds) ==
    LET roundsFromEnd == totalRounds - round IN
    CASE roundsFromEnd = 0 -> "Final"
      [] roundsFromEnd = 1 -> "Semi Final"
      [] roundsFromEnd = 2 -> "Quarter Final"
      [] roundsFromEnd = 3 -> "Round of 16"
      [] roundsFromEnd = 4 -> "Round of 32"
      [] roundsFromEnd = 5 -> "Round of 64"
      [] OTHER -> "Round " \o ToString(round)

ByRoundThenNumber_Descending(a, b) ==
    IF a.round # b.round THEN a.round - b.round
    ELSE b.matchNumber - a.matchNumber

\* the comparator of getBracket: by round, then by matchNumber
ByRoundThenNumber(a, b) ==
    IF a.round # b.round THEN a.round - b.round
    ELSE a.matchNumber - b.matchNumber

\* ParticipantService.getById for a slot: null for an empty slot or a miss.
\* A record or null is held as a sequence of one record or none.
Resolved(ps, id) ==
    IF id # Null /\ DBHas(ps, id) THEN <<DBGet(ps, id)>> ELSE <<>>

\* the match with its participants and its winner resolved
MatchData(ps, match) ==
    [ match |-> match,
      participant1 |-> Resolved(ps, match.participant1Id),
      participant2 |-> Resolved(ps, match.participant2Id),
      winner |-> Resolved(ps, match.winnerId) ]

\* Object.values(rounds): integer keys come in ascending order
RoundKeys(sorted) ==
    LET keys == { sorted[i].round : i \in DOMAIN sorted } IN
    [k \in 1 .. Cardinality(keys) |->
        CHOOSE r \in keys : Cardinality({ x \in keys : x < r }) = k - 1]

\* the champion of getBracket: resolved from the first Result of a completed
\* tournament
Champion(ts, ps, rs, tid) ==
    IF ts[tid].status = "completed" /\ FindByTournament(rs, tid) # <<>>
    THEN Resolved(ps, FindByTournament(rs, tid)[1].championId)
    ELSE <<>>

\* what getBracket returns
getBracket(ts, ps, ms, rs, tid) ==
    LET found == FindByTournament(ms, tid)
        sorted == StableSort(found, [a \in Range(found), b \in Range(found) |->
                                        ByRoundThenNumber(a, b)])
        keys == RoundKeys(sorted)
    IN
    [ tournament |-> ts[tid],
      rounds |-> [k \in DOMAIN keys |->
                    LET inRound == SelectSeq(sorted, LAMBDA m : m.round = keys[k]) IN
                    [ round |-> keys[k],
                      name |-> getRoundName(keys[k], ts[tid].totalRounds),
                      matches |-> [i \in DOMAIN inRound |-> MatchData(ps, inRound[i])] ]],
      totalRounds |-> ts[tid].totalRounds,
      champion |-> Champion(ts, ps, rs, tid) ]

\* a call of getBracket: the caller holds the view
GetBracket(tid) ==
    /\ outcome' = [op |-> "getBracket", err |-> "ok",
                   view |-> getBracket(tournaments, participants, matches,
                                       results, tid)]
    /\ UNCHANGED <<tournaments, participants, matches, results, rescored, running>>

\* tournaments of two and of four with a full roster
InitView ==
    /\ \E roster \in { <<2, 1>>, <<3, 1, 4, 2>>, <<Null, 2, Null, 1>> } :
          /\ tournaments = [tid \in TournamentIds |-> NewTournament(Len(roster))]
          /\ participants = [i \in DOMAIN roster |-> NewParticipant(i, 1, roster[i])]
    /\ matches = <<>>
    /\ results = <<>>
    /\ outcome = [op |-> "create", err |-> "ok"]
    /\ rescored = 0
    /\ running = [p \in Procs |-> Idle]

NextView == \E tid \in TournamentIds : GetBracket(tid)

\* the calls that return normally on tournaments of two and four, and the
\* read view between them
SpecView == InitView /\ [][Next \/ NextView]_vars

\* seeds a participant may carry: validate admits every integer from 1 on, no
\* two participants need differ in it, Null = unseeded
SeedsAll == {Null, 1, 2, 1000}

RosterSizes == {2, 4}

\* a full roster of any mix of seeds, for a tournament of its size
InitSeeds ==
    /\ \E n \in RosterSizes : \E roster \in [1 .. n -> SeedsAll] :
          /\ tournaments = [tid \in TournamentIds |-> NewTournament(n)]
          /\ participants = [i \in 1 .. n |-> NewParticipant(i, 1, roster[i])]
    /\ matches = <<>>
    /\ results = <<>>
    /\ outcome = [op |-> "create", err |-> "ok"]
    /\ rescored = 0
    /\ running = [p \in Procs |-> Idle]

NextSeeds ==
    \/ \E tid \in TournamentIds : Generate(tid)
    \/ \E tid \in TournamentIds : Start(tid)

\* generate and start on every mix of seeds
SpecSeeds == InitSeeds /\ [][NextSeeds]_vars

(***************************************************************************)
(* TournamentService.update, as far as it touches the bracket: the         *)
(* participantCount handed over (0 = none, which is falsy as well)         *)
(***************************************************************************)
CountsUpdate == {0, 2, 3, 4}

UpdateError_Never(tid, participantCount) == "ok"

\* the throw of update ("ok" when it is not taken)
UpdateError(tid, participantCount) ==
    IF participantCount # 0 /\ tournaments[tid].status # "draft"
    THEN "CannotChangeCount" ELSE "ok"

Update(tid, participantCount) ==
    /\ UpdateError(tid, participantCount) = "ok"
    /\ tournaments' =
          IF participantCount # 0
          THEN [tournaments EXCEPT
                   ![tid].participantCount = participantCount,
                   ![tid].totalRounds = IF isPowerOfTwo(participantCount)
                                        THEN Log2(participantCount) ELSE NotWhole]
          ELSE tournaments
    /\ outcome' = [op |-> "update", err |-> "ok"]
    /\ UNCHANGED <<participants, matches, results, rescored, running>>

UpdateFails(tid, participantCount) ==
    /\ UpdateError(tid, participantCount) # "ok"
    /\ Fail("update", UpdateError(tid, participantCount))

NextCount ==
    \/ \E tid \in TournamentIds, n \in CountsUpdate : Update(tid, n)
    \/ \E tid \in TournamentIds, n \in CountsUpdate : UpdateFails(tid, n)

\* the calls that return normally, and TournamentService.update between them
SpecCount == Init /\ [][Next \/ NextCount]_vars

\* the calls that throw: nothing is written, the caller sees the error
NextFails ==
    \/ \E tid \in TournamentIds : GenerateFails(tid)
    \/ \E tid \in TournamentIds : StartFails(tid)
    \/ \E matchId \in MatchIdsAll, scores \in ScorePairsAll :
          UpdateScoreFails(matchId, scores[1], scores[2])
    \/ \E tid \in TournamentIds : ResetFails(tid)
    \/ \E tid \in TournamentIds : AssignParticipantsFails(tid)
    \/ \E pid \in ParticipantIds : DeleteParticipantFails(pid)

\* the calls made apart from a tournament's usual course
NextDirect ==
    \/ \E tid \in TournamentIds : AssignParticipants(tid)
    \/ \E pid \in ParticipantIds : DeleteParticipant(pid)

NextAll == Next \/ NextDirect \/ NextFails

\* every call, returning or throwing
SpecAll == InitAll /\ [][NextAll]_vars

(***************************************************************************)
(* Calls under way at the same time.  The store is shared by every caller  *)
(* and no call locks it, so the store operations of one call may fall      *)
(* between those of another.  updateScore and reset are cut at their store *)
(* writes: a step is one write together with the reads the code makes      *)
(* before it (the loop of participant updates of reset is one step).  A    *)
(* call under way holds what it read: the match, the scores, the           *)
(* tournament's totalRounds; `overtaken` tells that another caller has     *)
(* written the store since the call's first read.                          *)
(***************************************************************************)
CountsRace == {2, 4}

RostersRace == { <<2, 1>>, <<3, 1, 4, 2>> }

MatchIdsRace == 1 .. 3

ScorePairsRace == { <<1, 0>>, <<0, 1>> }

InitRace ==
    /\ tournaments \in [TournamentIds -> { NewTournament(n) : n \in CountsRace }]
    /\ \E roster \in RostersRace :
          participants = [i \in DOMAIN roster |-> NewParticipant(i, 1, roster[i])]
    /\ matches = <<>>
    /\ results = <<>>
    /\ outcome = [op |-> "create", err |-> "ok"]
    /\ rescored = 0
    /\ running = [p \in Procs |-> Idle]

ScorePcs == {"writeMatch", "eliminate", "advance", "finish", "complete"}

ResetPcs == {"deleteMatches", "deleteResults", "participants", "tournament"}

\* a step of caller p that only reads
Reads(p, call) == running' = [running EXCEPT ![p] = call]

\* a step of caller p that writes the store
Writes(p, call) ==
    running' = [q \in Procs |->
                   IF q = p THEN call
                   ELSE IF running[q].pc # "idle"
                        THEN [running[q] EXCEPT !.overtaken = TRUE]
                        ELSE running[q]]

\* callers are alike: a call goes to the first caller that has none under way
Free(p) ==
    /\ running[p].pc = "idle"
    /\ \A q \in Procs : q < p => running[q].pc # "idle"

\* a call that begins while another is under way is outside the usual course
Overlaps == \E q \in Procs : running[q].pc # "idle"

\* what updateScore uses of the match it read once the match is written
Held(match) ==
    [ id |-> match.id, tournamentId |-> match.tournamentId,
      round |-> match.round, matchNumber |-> match.matchNumber ]

\* updateScore up to its first write: the match is read and the checks pass
ScoreRead(p, matchId, score1, score2) ==
    LET match == DBGet(matches, matchId)
        aside == Overlaps \/ match.status = "completed"
    IN
    /\ Free(p)
    /\ ValidScores(score1, score2)
    /\ UpdateScoreError(matchId, score1, score2) = "ok"
    /\ aside => rescored < MaxRescore
    /\ rescored' = IF aside THEN rescored + 1 ELSE rescored
    /\ Reads(p, [pc |-> "writeMatch", op |-> "updateScore", match |-> Held(match),
                 winnerId |-> WinnerOf(match, score1, score2),
                 loserId |-> LoserOf(match, score1, score2),
                 score1 |-> score1, score2 |-> score2,
                 totalRounds |-> NoRound,
                 nextMatch |-> "none", overtaken |-> FALSE])
    /\ UNCHANGED <<tournaments, participants, matches, results, outcome>>

\* DB.update of the match with the scores, the winner and status completed
ScoreWriteMatch(p) ==
    LET call == running[p] IN
    /\ call.pc = "writeMatch"
    /\ matches' = DBUpdate(matches, call.match.id,
                     [score1 |-> call.score1, score2 |-> call.score2,
                      winnerId |-> call.winnerId, status |-> "completed"])
    /\ Writes(p, [call EXCEPT !.pc = "eliminate"])
    /\ UNCHANGED <<tournaments, participants, results, outcome, rescored>>

\* the tournament is read, the loser is eliminated
ScoreEliminate(p) ==
    LET call == running[p] IN
    /\ call.pc = "eliminate"
    /\ participants' = eliminate(participants, call.loserId, call.match.round)
    /\ Writes(p, [call EXCEPT !.pc = "advance",
                              !.totalRounds =
                                  tournaments[call.match.tournamentId].totalRounds])
    /\ UNCHANGED <<tournaments, matches, results, outcome, rescored>>

\* the way advanceWinner leaves: no next round, next match not found (logged,
\* no throw), or the next match written
NextMatchOf(ms, ts, match) ==
    LET tid == match.tournamentId
        matchIndexInRound ==
            match.matchNumber - getFirstMatchNumberOfRound(ts, tid, match.round)
        nextMatches ==
            SelectSeq(ms, LAMBDA m : m.tournamentId = tid
                                     /\ m.round = match.round + 1)
    IN
    IF match.round + 1 > ts[tid].totalRounds THEN "final"
    ELSE IF (NextMatchIndex(matchIndexInRound) + 1) \notin DOMAIN nextMatches
         THEN "notFound"
    ELSE "found"

\* this.advanceWinner(match, winnerId)
ScoreAdvance(p) ==
    LET call == running[p] IN
    /\ call.pc = "advance"
    /\ matches' = advanceWinner(matches, tournaments, call.match, call.winnerId)
    /\ Writes(p, [call EXCEPT !.pc = "finish",
                              !.nextMatch = NextMatchOf(matches, tournaments,
                                                        call.match)])
    /\ UNCHANGED <<tournaments, participants, results, outcome, rescored>>

\* the final: finalizeTournament inserts the Result; any other match:
\* updateCurrentRound, and updateScore returns
ScoreFinish(p) ==
    LET call == running[p]
        tid == call.match.tournamentId
    IN
    /\ call.pc = "finish"
    /\ IF call.match.round = call.totalRounds
       THEN /\ results' = DBInsert(results,
                   NewResult(matches, tournaments, tid, call.winnerId, call.loserId))
            /\ Writes(p, [call EXCEPT !.pc = "complete"])
            /\ UNCHANGED <<tournaments, outcome>>
       ELSE /\ tournaments' = updateCurrentRound(tournaments, matches, tid)
            /\ Writes(p, Idle)
            /\ outcome' = [op |-> "updateScore", err |-> "ok"]
            /\ UNCHANGED results
    /\ UNCHANGED <<participants, matches, rescored>>

\* finalizeTournament sets the tournament completed, and updateScore returns
ScoreComplete(p) ==
    LET call == running[p] IN
    /\ call.pc = "complete"
    /\ tournaments' = Finalized(tournaments, call.match.tournamentId)
    /\ Writes(p, Idle)
    /\ outcome' = [op |-> "updateScore", err |-> "ok"]
    /\ UNCHANGED <<participants, matches, results, rescored>>

\* reset up to its first write: the tournament is read and the check passes
ResetCheck(p, tid) ==
    /\ Free(p)
    /\ ResetError(tid) = "ok"
    /\ Overlaps => rescored < MaxRescore
    /\ rescored' = IF Overlaps THEN rescored + 1 ELSE rescored
    /\ Reads(p, [pc |-> "deleteMatches", op |-> "reset", tid |-> tid,
                 overtaken |-> FALSE])
    /\ UNCHANGED <<tournaments, participants, matches, results, outcome>>

ResetDeleteMatches(p) ==
    LET call == running[p] IN
    /\ call.pc = "deleteMatches"
    /\ matches' = DeleteWhere(matches, call.tid)
    /\ Writes(p, [call EXCEPT !.pc = "deleteResults"])
    /\ UNCHANGED <<tournaments, participants, results, outcome, rescored>>

ResetDeleteResults(p) ==
    LET call == running[p] IN
    /\ call.pc = "deleteResults"
    /\ results' = DeleteWhere(results, call.tid)
    /\ Writes(p, [call EXCEPT !.pc = "participants"])
    /\ UNCHANGED <<tournaments, participants, matches, outcome, rescored>>

ResetParticipants(p) ==
    LET call == running[p] IN
    /\ call.pc = "participants"
    /\ participants' = Restored(participants, call.tid)
    /\ Writes(p, [call EXCEPT !.pc = "tournament"])
    /\ UNCHANGED <<tournaments, matches, results, outcome, rescored>>

\* the tournament is set to draft, and reset returns; the calls begun aside
\* are counted over the whole run
ResetTournament(p) ==
    LET call == running[p] IN
    /\ call.pc = "tournament"
    /\ tournaments' = [tournaments EXCEPT
           ![call.tid].status = "draft", ![call.tid].currentRound = 1]
    /\ Writes(p, Idle)
    /\ outcome' = [op |-> "reset", err |-> "ok"]
    /\ UNCHANGED <<participants, matches, results, rescored>>

\* generate while no updateScore is under way: DB.generateId never hands out
\* an id twice, so a match generated later never has the id a call holds
GenerateApart(tid) ==
    /\ \A p \in Procs : running[p].pc \notin ScorePcs
    /\ Generate(tid)

NextRace ==
    \/ \E tid \in TournamentIds : GenerateApart(tid)
    \/ \E tid \in TournamentIds : Start(tid)
    \/ \E p \in Procs, matchId \in MatchIdsRace, scores \in ScorePairsRace :
          ScoreRead(p, matchId, scores[1], scores[2])
    \/ \E p \in Procs : ScoreWriteMatch(p)
    \/ \E p \in Procs : ScoreEliminate(p)
    \/ \E p \in Procs : ScoreAdvance(p)
    \/ \E p \in Procs : ScoreFinish(p)
    \/ \E p \in Procs : ScoreComplete(p)
    \/ \E p \in Procs, tid \in TournamentIds : ResetCheck(p, tid)
    \/ \E p \in Procs : ResetDeleteMatches(p)
    \/ \E p \in Procs : ResetDeleteResults(p)
    \/ \E p \in Procs : ResetParticipants(p)
    \/ \E p \in Procs : ResetTournament(p)

\* generate and start whole, updateScore and reset write by write
SpecRace == InitRace /\ [][NextRace]_vars

\* one caller plays the tournament through: updateScore is begun on a match
\* that is upcoming, so every match is scored once
PlayRead(matchId, score1, score2) ==
    /\ ~Overlaps
    /\ DBHas(matches, matchId)
    /\ DBGet(matches, matchId).status = "upcoming"
    /\ ScoreRead(1, matchId, score1, score2)

\* a call is begun, or the call under way takes its next step
PlayOn ==
    \/ \E matchId \in MatchIds, scores \in ScorePairsRace :
          PlayRead(matchId, scores[1], scores[2])
    \/ ScoreWriteMatch(1)
    \/ ScoreEliminate(1)
    \/ ScoreAdvance(1)
    \/ ScoreFinish(1)
    \/ ScoreComplete(1)

NextPlay ==
    \/ \E tid \in TournamentIds : Generate(tid)
    \/ \E tid \in TournamentIds : Start(tid)
    \/ PlayOn

\* a call that has begun runs to its end, and as long as a match is upcoming
\* some upcoming match is scored in the end
SpecPlay == Init /\ [][NextPlay]_vars /\ WF_vars(PlayOn)

(***************************************************************************)
(* Vocabulary of the properties: the stored records as sets, independent   *)
(* of the order of the collections.                                        *)
(***************************************************************************)
MatchesOf(ms, tid) == { m \in Range(ms) : m.tournamentId = tid }

RoundOf(ms, tid, round) == { m \in MatchesOf(ms, tid) : m.round = round }

ParticipantsOf(ps, tid) == { q \in Range(ps) : q.tournamentId = tid }

ResultsOf(rs, tid) == { r \in Range(rs) : r.tournamentId = tid }

\* 0-based position of a match within its round, by matchNumber
IndexInRound(ms, m) ==
    Cardinality({ x \in RoundOf(ms, m.tournamentId, m.round) :
                    x.matchNumber < m.matchNumber })

\* the matches of a round at a given 0-based position
AtIndex(ms, tid, round, k) ==
    { m \in RoundOf(ms, tid, round) : IndexInRound(ms, m) = k }

\* the stored match with an id
MatchWithId(ms, id) == CHOOSE m \in Range(ms) : m.id = id

ParticipantWithId(ps, id) == CHOOSE q \in Range(ps) : q.id = id

\* the records a step appended to a collection
Appended(before, after) == SubSeq(after, Len(before) + 1, Len(after))

Extends(before, after) ==
    /\ Len(after) >= Len(before)
    /\ SubSeq(after, 1, Len(before)) = before

(***************************************************************************)
(* C1: for every draft tournament whose participantCount N is a power of   *)
(* two, generateBracket succeeds and creates exactly N-1 matches, N/2^r of *)
(* them in each round r = 1..log2(N), each with empty participant, winner  *)
(* and score fields and status pending, and sets the tournament status to  *)
(* registration.                                                           *)
(***************************************************************************)
C1_Created(tid, n, created, t) ==
    /\ Len(created) = n - 1
    /\ \A r \in 1 .. Log2(n) :
          Cardinality({ i \in DOMAIN created : created[i].round = r }) * Pow2(r) = n
    /\ \A i \in DOMAIN created :
          /\ created[i].tournamentId = tid
          /\ created[i].round \in 1 .. Log2(n)
          /\ created[i].participant1Id = Null
          /\ created[i].participant2Id = Null
          /\ created[i].winnerId = Null
          /\ created[i].score1 = NoScore
          /\ created[i].score2 = NoScore
          /\ created[i].status = "pending"
    /\ t.status = "registration"

C1_GenerateCreatesBracket ==
    [][\A tid \in TournamentIds :
          LET n == tournaments[tid].participantCount IN
          /\ (tournaments[tid].status = "draft" /\ isPowerOfTwo(n))
                => GenerateError(tid) = "ok"
          /\ Generate(tid)
                => /\ Extends(matches, matches')
                   /\ C1_Created(tid, n, Appended(matches, matches'),
                                 tournaments'[tid])]_vars

C1_Witness ==
    \E tid \in TournamentIds :
        /\ outcome = [op |-> "generate", err |-> "ok"]
        /\ tournaments[tid].participantCount = 8
        /\ tournaments[tid].status = "registration"
        /\ Cardinality(MatchesOf(matches, tid)) = 7
        /\ Cardinality(RoundOf(matches, tid, 1)) = 4
        /\ Cardinality(RoundOf(matches, tid, 3)) = 1

(***************************************************************************)
(* C2: whenever a tournament has matches, matchNumber is unique within the *)
(* tournament, the numbers are exactly 1..N-1, every match of round r has  *)
(* a smaller number than every match of round r+1, and the numbers of each *)
(* round form one contiguous block.                                        *)
(***************************************************************************)
C2_Numbering(tid) ==
    LET ms == MatchesOf(matches, tid)
        n == tournaments[tid].participantCount
    IN  ms # {} =>
        /\ \A a, b \in ms : a.matchNumber = b.matchNumber => a = b
        /\ { m.matchNumber : m \in ms } = 1 .. (n - 1)
        /\ \A a, b \in ms : a.round < b.round => a.matchNumber < b.matchNumber
        /\ \A a, b \in ms :
              a.round = b.round =>
                 \A k \in a.matchNumber .. b.matchNumber :
                    \E c \in ms : c.round = a.round /\ c.matchNumber = k

C2_MatchNumbersRoundMajor == \A tid \in TournamentIds : C2_Numbering(tid)

C2_Witness ==
    \E tid \in TournamentIds :
        /\ tournaments[tid].participantCount = 8
        /\ tournaments[tid].status = "completed"
        /\ Cardinality(MatchesOf(matches, tid)) = 7

(***************************************************************************)
(* C3: for N participants seeded 1..N, assignParticipants (run by start)   *)
(* writes into the round-1 match of index i (round-1 matches ordered by    *)
(* matchNumber, i = 0..N/2-1) the participant with seed i+1 as             *)
(* participant1 and the participant with seed N-i as participant2.         *)
(***************************************************************************)
SeededOneToN(tid) ==
    LET ps == ParticipantsOf(participants, tid)
        n == tournaments[tid].participantCount
    IN  /\ Cardinality(ps) = n
        /\ { q.seed : q \in ps } = 1 .. n

WithSeed(ps, tid, seed) == CHOOSE q \in ParticipantsOf(ps, tid) : q.seed = seed

C3_SeedPairing ==
    [][\A tid \in TournamentIds :
          (Start(tid) /\ SeededOneToN(tid)) =>
             LET n == tournaments[tid].participantCount IN
             \A i \in 0 .. (n \div 2 - 1) :
                /\ Cardinality(AtIndex(matches', tid, 1, i)) = 1
                /\ \A m \in AtIndex(matches', tid, 1, i) :
                      /\ m.participant1Id = WithSeed(participants, tid, i + 1).id
                      /\ m.participant2Id = WithSeed(participants, tid, n - i).id]_vars

C3_Witness ==
    \E tid \in TournamentIds :
        /\ outcome = [op |-> "start", err |-> "ok"]
        /\ tournaments[tid].participantCount = 8
        /\ SeededOneToN(tid)
        /\ \E m \in AtIndex(matches, tid, 1, 2) :
              /\ ParticipantWithId(participants, m.participant1Id).seed = 3
              /\ ParticipantWithId(participants, m.participant2Id).seed = 6

\* the step is a call updateScore(matchId, score1, score2) that returns
\* normally; UpdateScore implies the conjuncts before it, which only spare
\* its evaluation on the steps and the arguments that cannot satisfy it
Scored(matchId, score1, score2) ==
    /\ outcome' = [op |-> "updateScore", err |-> "ok"]
    /\ ValidScores(score1, score2)
    /\ DBHas(matches', matchId)
    /\ DBGet(matches', matchId).score1 = score1
    /\ DBGet(matches', matchId).score2 = score2
    /\ UpdateScore(matchId, score1, score2)

(***************************************************************************)
(* C4: when updateScore succeeds on a non-final match at 0-based index k   *)
(* within round r, the winner is written into the match at index           *)
(* floor(k/2) of round r+1 (ordered by matchNumber), into participant1 if  *)
(* k is even and into participant2 if k is odd, and the other slot of that *)
(* destination match is left as it was.                                    *)
(***************************************************************************)
C4_Advanced(m, winnerId) ==
    LET tid == m.tournamentId
        k == IndexInRound(matches, m)
        dests == AtIndex(matches, tid, m.round + 1, k \div 2)
    IN  /\ Cardinality(dests) = 1
        /\ \A d \in dests :
              LET after == MatchWithId(matches', d.id) IN
              IF k % 2 = 0
              THEN /\ after.participant1Id = winnerId
                   /\ after.participant2Id = d.participant2Id
              ELSE /\ after.participant2Id = winnerId
                   /\ after.participant1Id = d.participant1Id

C4_WinnerDestination ==
    [][\A matchId \in MatchIds, score1, score2 \in Scores :
          (/\ Scored(matchId, score1, score2)
           /\ MatchWithId(matches, matchId).round
                 < tournaments[MatchWithId(matches, matchId).tournamentId].totalRounds)
          => C4_Advanced(MatchWithId(matches, matchId),
                         MatchWithId(matches', matchId).winnerId)]_vars

\* the match at index 3 of round 1 was scored before the one at index 2
C4_Witness ==
    \E tid \in TournamentIds :
        /\ outcome = [op |-> "updateScore", err |-> "ok"]
        /\ \E m \in AtIndex(matches, tid, 1, 3), d \in AtIndex(matches, tid, 2, 1) :
              /\ m.status = "completed"
              /\ d.participant2Id = m.winnerId
              /\ d.participant1Id = Null

(***************************************************************************)
(* C5: a successful updateScore(matchId, s1, s2) sets the match to         *)
(* completed with score1 = s1, score2 = s2 and winnerId = participant1 if  *)
(* s1 > s2 else participant2, and marks the other participant (the loser)  *)
(* eliminated with eliminatedAtRound equal to the match's round; the       *)
(* winner's participant record is not changed.                             *)
(***************************************************************************)
C5_Scored(m, score1, score2) ==
    LET after == MatchWithId(matches', m.id)
        winnerId == IF score1 > score2 THEN m.participant1Id ELSE m.participant2Id
        loserId == IF score1 > score2 THEN m.participant2Id ELSE m.participant1Id
    IN  /\ after.status = "completed"
        /\ after.score1 = score1
        /\ after.score2 = score2
        /\ after.winnerId = winnerId
        /\ ParticipantWithId(participants', loserId).status = "eliminated"
        /\ ParticipantWithId(participants', loserId).eliminatedAtRound = m.round
        /\ ParticipantWithId(participants', winnerId)
              = ParticipantWithId(participants, winnerId)

C5_ScoreRecorded ==
    [][\A matchId \in MatchIds, score1, score2 \in Scores :
          Scored(matchId, score1, score2)
             => C5_Scored(MatchWithId(matches, matchId), score1, score2)]_vars

\* a round-2 match won by its second participant
C5_Witness ==
    /\ outcome = [op |-> "updateScore", err |-> "ok"]
    /\ \E m \in Range(matches) :
          /\ m.round = 2
          /\ m.status = "completed"
          /\ m.score1 < m.score2
          /\ m.winnerId = m.participant2Id
          /\ ParticipantWithId(participants, m.participant1Id).eliminatedAtRound = 2
          /\ ParticipantWithId(participants, m.participant2Id).status = "active"

(***************************************************************************)
(* C6: when the final (round = totalRounds) is scored, a Result is written *)
(* with championId = the final's winner, runnerUpId = the final's loser,   *)
(* thirdPlaceIds = the losers of the matches of round totalRounds-1 in     *)
(* match order, totalMatches = N-1 and totalParticipants = N, and the      *)
(* tournament gets status completed and currentRound = totalRounds.        *)
(***************************************************************************)
\* the participant of a decided match that is not its winner
LoserOfMatch(m) ==
    IF m.participant1Id = m.winnerId THEN m.participant2Id ELSE m.participant1Id

C6_Finalized(m) ==
    LET tid == m.tournamentId
        n == tournaments[tid].participantCount
        totalRounds == tournaments[tid].totalRounds
        final == MatchWithId(matches', m.id)
        semis == RoundOf(matches', tid, totalRounds - 1)
        result == results'[Len(results')]
    IN  /\ Extends(results, results')
        /\ Len(results') = Len(results) + 1
        /\ result.tournamentId = tid
        /\ result.championId = final.winnerId
        /\ result.championId \in {m.participant1Id, m.participant2Id}
        /\ result.runnerUpId \in {m.participant1Id, m.participant2Id}
        /\ result.runnerUpId # result.championId
        /\ Len(result.thirdPlaceIds) = Cardinality(semis)
        /\ \A j \in DOMAIN result.thirdPlaceIds :
              \E semi \in AtIndex(matches', tid, totalRounds - 1, j - 1) :
                 result.thirdPlaceIds[j] = LoserOfMatch(semi)
        /\ result.totalMatches = n - 1
        /\ result.totalParticipants = n
        /\ tournaments'[tid].status = "completed"
        /\ tournaments'[tid].currentRound = totalRounds

C6_FinalWritesResult ==
    [][\A matchId \in MatchIds, score1, score2 \in Scores :
          (/\ Scored(matchId, score1, score2)
           /\ MatchWithId(matches, matchId).round
                 = tournaments[MatchWithId(matches, matchId).tournamentId].totalRounds)
          => C6_Finalized(MatchWithId(matches, matchId))]_vars

\* the scenario of four participants: seed 1 beats seed 4, seed 3 beats seed 2,
\* seed 1 beats seed 3
C6_Witness ==
    \E tid \in TournamentIds :
        /\ tournaments[tid].participantCount = 4
        /\ tournaments[tid].status = "completed"
        /\ SeededOneToN(tid)
        /\ Len(results) = 1
        /\ results[1].championId = WithSeed(participants, tid, 1).id
        /\ results[1].runnerUpId = WithSeed(participants, tid, 3).id
        /\ results[1].thirdPlaceIds = << WithSeed(participants, tid, 4).id,
                                         WithSeed(participants, tid, 2).id >>
        /\ results[1].totalMatches = 3

(***************************************************************************)
(* C7: finalization is triggered exactly once per tournament: in every     *)
(* state reachable by generateBracket, start, updateScore and resetBracket *)
(* at most one Result record exists for a tournament.                      *)
(***************************************************************************)
C7_AtMostOneResult ==
    \A tid \in TournamentIds :
        Cardinality({ i \in DOMAIN results : results[i].tournamentId = tid }) <= 1

(***************************************************************************)
(* C8: after any successful updateScore, the tournament's currentRound     *)
(* equals the smallest round number that contains a match whose status is  *)
(* not completed, or totalRounds once the tournament is finished.          *)
(***************************************************************************)
OpenRounds(ms, tid, totalRounds) ==
    { r \in 1 .. totalRounds :
        \E m \in RoundOf(ms, tid, r) : m.status # "completed" }

C8_Strict ==
    [][\A matchId \in MatchIds, score1, score2 \in Scores :
          Scored(matchId, score1, score2) =>
             LET tid == MatchWithId(matches, matchId).tournamentId
                 t == tournaments'[tid]
                 open == OpenRounds(matches', tid, t.totalRounds)
             IN  t.currentRound = IF open = {} THEN t.totalRounds ELSE Min(open)]_vars

C9_OneEliminatedPerCompleted ==
    \A tid \in TournamentIds :
        Cardinality({ q \in ParticipantsOf(participants, tid) :
                        q.status = "eliminated" })
          = Cardinality({ m \in MatchesOf(matches, tid) : m.status = "completed" })

(***************************************************************************)
(* C10: in every reachable state the participant recorded as championId in *)
(* a tournament's Result is not eliminated: its status is active.          *)
(***************************************************************************)
C10_ChampionActive ==
    \A i \in DOMAIN results :
        ParticipantWithId(participants, results[i].championId).status = "active"

(***************************************************************************)
(* Vocabulary of the claims on calls that throw                            *)
(***************************************************************************)
\* the step is a call updateScore(matchId, score1, score2) that throws
ScoreThrown(matchId, score1, score2) ==
    /\ outcome'.op = "updateScore"
    /\ outcome'.err # "ok"
    /\ UpdateScoreFails(matchId, score1, score2)

\* no stored record is created, changed or deleted
RecordsUnchanged == UNCHANGED <<tournaments, participants, matches, results>>

(***************************************************************************)
(* C11: updateScore reports the error of the first failing precondition in *)
(* the order: match does not exist -> NotFound; status is pending ->       *)
(* MatchNotReady; a participant slot is empty -> IncompleteMatch; a score   *)
(* is negative -> InvalidScore; the scores are equal -> DrawNotAllowed; and *)
(* it reports none when none fails.                                        *)
(***************************************************************************)
C11_FirstFailure(matchId, score1, score2) ==
    LET stored == { m \in Range(matches) : m.id = matchId } IN
    IF stored = {} THEN "NotFound"
    ELSE IF \E m \in stored : m.status = "pending" THEN "MatchNotReady"
    ELSE IF \E m \in stored : Null \in {m.participant1Id, m.participant2Id}
         THEN "IncompleteMatch"
    ELSE IF score1 < 0 \/ score2 < 0 THEN "InvalidScore"
    ELSE IF score1 = score2 THEN "DrawNotAllowed"
    ELSE "ok"

C11_ErrorOrder ==
    [][IF outcome' = [op |-> "updateScore", err |-> "ok"]
       THEN \A matchId \in MatchIds, score1, score2 \in Scores :
               Scored(matchId, score1, score2)
                  => C11_FirstFailure(matchId, score1, score2) = "ok"
       ELSE \A matchId \in MatchIdsAll, scores \in ScorePairsAll :
               ScoreThrown(matchId, scores[1], scores[2])
                  => outcome'.err = C11_FirstFailure(matchId, scores[1], scores[2])
      ]_vars

\* a match that is not pending has lost a participant and is refused for it
C11_Witness ==
    /\ outcome = [op |-> "updateScore", err |-> "IncompleteMatch"]
    /\ \E m \in Range(matches) :
          /\ m.status = "upcoming"
          /\ m.participant1Id = Null
          /\ m.participant2Id # Null

(***************************************************************************)
(* C12: an updateScore call that fails a precondition (NotFound,           *)
(* MatchNotReady, IncompleteMatch, InvalidScore, DrawNotAllowed) leaves     *)
(* every match, participant, tournament and result record unchanged.       *)
(***************************************************************************)
C12_Rejected(matchId, score1, score2) ==
    LET stored == { m \in Range(matches) : m.id = matchId } IN
    \/ stored = {}
    \/ \E m \in stored : m.status = "pending"
    \/ \E m \in stored : m.participant1Id = Null \/ m.participant2Id = Null
    \/ score1 < 0 \/ score2 < 0
    \/ score1 = score2

C12_FailedScoreWritesNothing ==
    [][\/ RecordsUnchanged
       \/ /\ \A matchId \in MatchIdsAll, scores \in ScorePairsAll :
                ~ScoreThrown(matchId, scores[1], scores[2])
          /\ \A matchId \in MatchIds, score1, score2 \in Scores :
                Scored(matchId, score1, score2)
                   => ~C12_Rejected(matchId, score1, score2)]_vars

\* a draw is refused in a bracket that already has a scored match
C12_Witness ==
    /\ outcome = [op |-> "updateScore", err |-> "DrawNotAllowed"]
    /\ \E m \in Range(matches) : m.status = "completed"
    /\ \E m \in Range(matches) : m.status = "upcoming"

(***************************************************************************)
(* C13: generateBracket on a tournament whose status is not draft          *)
(* (registration, ongoing or completed) fails with AlreadyGenerated,       *)
(* creates no match and changes no record.                                 *)
(***************************************************************************)
C13_AlreadyGenerated ==
    [][\A tid \in TournamentIds :
          (/\ tournaments[tid].status \in {"registration", "ongoing", "completed"}
           /\ (Generate(tid) \/ GenerateFails(tid)))
          => /\ outcome' = [op |-> "generate", err |-> "AlreadyGenerated"]
             /\ RecordsUnchanged]_vars

\* generate is refused on a tournament that is being played
C13_Witness ==
    \E tid \in TournamentIds :
        /\ outcome = [op |-> "generate", err |-> "AlreadyGenerated"]
        /\ tournaments[tid].status = "ongoing"
        /\ MatchesOf(matches, tid) # {}

(***************************************************************************)
(* C14: generateBracket on a draft tournament whose participantCount N is  *)
(* not a power of two (N <= 0 or N & (N-1) # 0) fails with InvalidTopology, *)
(* creates no match and leaves the tournament in draft.                    *)
(***************************************************************************)
C14_PowerOfTwo(n) == \E k \in 0 .. 6 : n = 2 ^ k

C14_InvalidTopology ==
    [][\A tid \in TournamentIds :
          (/\ tournaments[tid].status = "draft"
           /\ ~C14_PowerOfTwo(tournaments[tid].participantCount)
           /\ (Generate(tid) \/ GenerateFails(tid)))
          => /\ outcome' = [op |-> "generate", err |-> "InvalidTopology"]
             /\ matches' = matches
             /\ tournaments'[tid].status = "draft"
             /\ RecordsUnchanged]_vars

\* generate is refused for three participants
C14_Witness ==
    \E tid \in TournamentIds :
        /\ outcome = [op |-> "generate", err |-> "InvalidTopology"]
        /\ tournaments[tid].participantCount = 3
        /\ tournaments[tid].status = "draft"
        /\ matches = <<>>

(***************************************************************************)
(* C15: assignParticipants fails with IncompleteRoster whenever the number *)
(* of participants of the tournament differs from participantCount (fewer  *)
(* or more), and then changes no match.                                    *)
(***************************************************************************)
C15_IncompleteRoster ==
    [][\A tid \in TournamentIds :
          (/\ Cardinality(ParticipantsOf(participants, tid))
                 # tournaments[tid].participantCount
           /\ (AssignParticipants(tid) \/ AssignParticipantsFails(tid)))
          => /\ outcome' = [op |-> "assignParticipants", err |-> "IncompleteRoster"]
             /\ matches' = matches]_vars

\* the call is refused for a roster with a participant too many
C15_Witness ==
    \E tid \in TournamentIds :
        /\ outcome = [op |-> "assignParticipants", err |-> "IncompleteRoster"]
        /\ Cardinality(ParticipantsOf(participants, tid))
              > tournaments[tid].participantCount
        /\ MatchesOf(matches, tid) # {}

(***************************************************************************)
(* C16: resetBracket on a tournament with status completed fails with      *)
(* CannotResetCompleted and deletes or changes no match, result,           *)
(* participant or tournament record.                                       *)
(***************************************************************************)
C16_CannotResetCompleted ==
    [][\A tid \in TournamentIds :
          (/\ tournaments[tid].status = "completed"
           /\ (Reset(tid) \/ ResetFails(tid)))
          => /\ outcome' = [op |-> "reset", err |-> "CannotResetCompleted"]
             /\ RecordsUnchanged]_vars

\* reset is refused on a finished tournament of four
C16_Witness ==
    \E tid \in TournamentIds :
        /\ outcome = [op |-> "reset", err |-> "CannotResetCompleted"]
        /\ tournaments[tid].status = "completed"
        /\ Cardinality(MatchesOf(matches, tid)) = 3
        /\ ResultsOf(results, tid) # {}

(***************************************************************************)
(* C17: a successful resetBracket (status draft, registration or ongoing)  *)
(* leaves the tournament with no Match and no Result records, every        *)
(* participant active with eliminatedAtRound = none, and the tournament in *)
(* draft with currentRound = 1; it deletes no participant and changes no   *)
(* participant's seed.                                                     *)
(***************************************************************************)
C17_Cleared(tid) ==
    /\ MatchesOf(matches', tid) = {}
    /\ ResultsOf(results', tid) = {}
    /\ \A q \in ParticipantsOf(participants', tid) :
          q.status = "active" /\ q.eliminatedAtRound = NoRound
    /\ tournaments'[tid].status = "draft"
    /\ tournaments'[tid].currentRound = 1
    /\ Len(participants') = Len(participants)
    /\ \A i \in DOMAIN participants :
          /\ participants'[i].id = participants[i].id
          /\ participants'[i].tournamentId = participants[i].tournamentId
          /\ participants'[i].seed = participants[i].seed

C17_ResetClears ==
    [][\A tid \in TournamentIds :
          (outcome'.op = "reset" /\ Reset(tid))
             => /\ tournaments[tid].status \in {"draft", "registration", "ongoing"}
                /\ C17_Cleared(tid)]_vars

\* a started tournament of eight is back in draft with its roster
C17_Witness ==
    \E tid \in TournamentIds :
        /\ outcome = [op |-> "reset", err |-> "ok"]
        /\ tournaments[tid].status = "draft"
        /\ tournaments[tid].participantCount = 8
        /\ matches = <<>>
        /\ Cardinality(ParticipantsOf(participants, tid)) = 8
        /\ \A q \in ParticipantsOf(participants, tid) : q.status = "active"

(***************************************************************************)
(* C18: under generateBracket, assignParticipants, start, updateScore and  *)
(* resetBracket, tournament status changes only along draft ->             *)
(* registration (generateBracket) -> ongoing (start) -> completed          *)
(* (finalization in updateScore), or back to draft by resetBracket from    *)
(* draft/registration/ongoing; completed is reached only from ongoing and  *)
(* is never left.                                                          *)
(***************************************************************************)
C18_Allowed(before, after, op) ==
    \/ before = after
    \/ before = "draft" /\ after = "registration" /\ op = "generate"
    \/ before = "registration" /\ after = "ongoing" /\ op = "start"
    \/ before = "ongoing" /\ after = "completed" /\ op = "updateScore"
    \/ before \in {"registration", "ongoing"} /\ after = "draft" /\ op = "reset"

C18_StatusTransitions ==
    [][\A tid \in TournamentIds :
          outcome'.op \in {"generate", "assignParticipants", "start",
                           "updateScore", "reset"}
             => C18_Allowed(tournaments[tid].status, tournaments'[tid].status,
                            outcome'.op)]_vars

(***************************************************************************)
(* C19: under generateBracket, assignParticipants, start and updateScore,  *)
(* a match's status only moves forward along pending -> upcoming -> live   *)
(* -> completed: no operation moves an existing match to an earlier        *)
(* status, in particular a completed match stays completed.                *)
(***************************************************************************)
C19_Rank(status) ==
    CASE status = "pending" -> 0
      [] status = "upcoming" -> 1
      [] status = "live" -> 2
      [] status = "completed" -> 3

C19_MatchStatusForward ==
    [][outcome'.op \in {"generate", "assignParticipants", "start", "updateScore"}
          => \A m \in Range(matches) :
                \A after \in { x \in Range(matches') : x.id = m.id } :
                    C19_Rank(after.status) >= C19_Rank(m.status)]_vars

(***************************************************************************)
(* C20: after a successful updateScore on a non-final match, the           *)
(* destination match has status upcoming if both of its participant slots  *)
(* are filled, and keeps status pending when only one slot is filled.      *)
(***************************************************************************)
C20_Destination(m) ==
    LET tid == m.tournamentId
        dests == AtIndex(matches, tid, m.round + 1, IndexInRound(matches, m) \div 2)
    IN  /\ dests # {}
        /\ \A d \in dests :
              LET after == MatchWithId(matches', d.id) IN
              IF after.participant1Id # Null /\ after.participant2Id # Null
              THEN after.status = "upcoming"
              ELSE d.status = "pending" /\ after.status = "pending"

C21_BracketCorruption ==
    [][\A p \in Procs :
          (running[p].pc = "finish" /\ running[p].nextMatch = "notFound")
          => ~(/\ running'[p] = Idle
               /\ outcome' = [op |-> "updateScore", err |-> "ok"])]_vars

(***************************************************************************)
(* C27: the engine has no concurrency control.  When the store operations  *)
(* of an updateScore and of a reset on the same tournament interleave, an  *)
(* inconsistent state is reached: a participant marked eliminated in a     *)
(* draft tournament whose matches the reset deleted.  Such a state is      *)
(* entered only by a call that another caller has overtaken; calls that    *)
(* run one after the other never enter it.                                 *)
(***************************************************************************)
C27_Inconsistent(ts, ps, ms, run, tid) ==
    /\ ts[tid].status = "draft"
    /\ MatchesOf(ms, tid) = {}
    /\ \E q \in ParticipantsOf(ps, tid) : q.status = "eliminated"
    /\ \A p \in Procs : run[p].pc \notin ResetPcs

C27_OnlyWhenOvertaken ==
    [][\A tid \in TournamentIds :
          (/\ ~C27_Inconsistent(tournaments, participants, matches, running, tid)
           /\ C27_Inconsistent(tournaments', participants', matches', running', tid))
          => \E p \in Procs :
                /\ running[p].pc # "idle"
                /\ running'[p].pc # running[p].pc
                /\ running[p].overtaken]_vars

\* both calls have returned: the reset left a draft tournament without
\* matches, the updateScore it overtook eliminated the loser after that
C27_Witness ==
    /\ \A p \in Procs : running[p] = Idle
    /\ C27_Inconsistent(tournaments, participants, matches, running, 1)
    /\ outcome = [op |-> "updateScore", err |-> "ok"]

(***************************************************************************)
(* C22: getBracket is a read-only view.  A call changes no stored record;  *)
(* a second call with no write in between returns the same data; the       *)
(* rounds come by round number ascending, the matches of a round by        *)
(* matchNumber ascending; the champion is non-null only when the           *)
(* tournament is completed and has a Result.                               *)
(***************************************************************************)
C22_Ordered(view) ==
    /\ \A k \in DOMAIN view.rounds : \A j \in DOMAIN view.rounds :
          k < j => view.rounds[k].round < view.rounds[j].round
    /\ \A k \in DOMAIN view.rounds :
          LET ms == view.rounds[k].matches IN
          /\ ms # <<>>
          /\ \A i \in DOMAIN ms : ms[i].match.round = view.rounds[k].round
          /\ \A i \in DOMAIN ms : \A j \in DOMAIN ms :
                i < j => ms[i].match.matchNumber < ms[j].match.matchNumber

C22_Complete(view, tid) ==
    UNION { { view.rounds[k].matches[i].match :
                 i \in DOMAIN view.rounds[k].matches } : k \in DOMAIN view.rounds }
       = MatchesOf(matches, tid)

C22_ReadOnlyView ==
    [][\A tid \in TournamentIds :
          GetBracket(tid) =>
             /\ RecordsUnchanged
             /\ C22_Ordered(outcome'.view)
             /\ C22_Complete(outcome'.view, tid)
             /\ outcome'.view.champion # <<>>
                   => /\ tournaments[tid].status = "completed"
                      /\ ResultsOf(results, tid) # {}
             /\ outcome.op = "getBracket" => outcome'.view = outcome.view]_vars

\* the view of a completed bracket of two rounds or more, with its champion
C22_Witness ==
    /\ outcome.op = "getBracket"
    /\ Len(outcome.view.rounds) >= 2
    /\ outcome.view.champion # <<>>
    /\ outcome.view.champion[1].id = MatchWithId(matches, 3).winnerId

(***************************************************************************)
(* C23: the destination (match, slot) of a match is a function of          *)
(* participantCount, round and matchNumber only.  In whatever state a      *)
(* non-final match is scored, and with whatever scores, the winner goes    *)
(* into the slot that Destination gives from these three numbers, and no   *)
(* other match than the scored one and that destination is written.        *)
(***************************************************************************)
C23_Slot(m, slot) == IF slot = 1 THEN m.participant1Id ELSE m.participant2Id

C23_WrittenTo(m, winnerId) ==
    LET tid == m.tournamentId
        d == Destination(tournaments[tid].participantCount, m.round, m.matchNumber)
        dests == { x \in MatchesOf(matches', tid) : x.matchNumber = d.matchNumber }
    IN
    /\ Cardinality(dests) = 1
    /\ \A x \in dests : x.round = m.round + 1 /\ C23_Slot(x, d.slot) = winnerId
    /\ \A x \in Range(matches') :
          (x.id # m.id /\ x \notin dests) => x \in Range(matches)

C23_DestinationByNumbers ==
    [][\A matchId \in MatchIds, score1, score2 \in Scores :
          (/\ Scored(matchId, score1, score2)
           /\ MatchWithId(matches, matchId).round
                 < tournaments[MatchWithId(matches, matchId).tournamentId].totalRounds)
          => C23_WrittenTo(MatchWithId(matches, matchId),
                           MatchWithId(matches', matchId).winnerId)]_vars

\* of eight participants: the fourth match of round 1 was scored twice, with
\* either winner; both times the winner went into slot 2 of match 6
C23_Witness ==
    /\ outcome = [op |-> "updateScore", err |-> "ok"]
    /\ rescored = 1
    /\ tournaments[1].participantCount = 8
    /\ Destination(8, 1, 4) = [matchNumber |-> 6, slot |-> 2]
    /\ \E m \in MatchesOf(matches, 1), d \in MatchesOf(matches, 1) :
          /\ m.matchNumber = 4 /\ m.winnerId = m.participant1Id /\ m.winnerId # Null
          /\ d.matchNumber = 6 /\ d.participant2Id = m.winnerId
          /\ \E q \in ParticipantsOf(participants, 1) :
                q.id = m.participant1Id /\ q.status = "eliminated"

(***************************************************************************)
(* C24: the order assignParticipants pairs by puts the seeded participants *)
(* first, by ascending seed, and the unseeded ones after them; equal seeds *)
(* and unseeded participants keep the order in which they are stored.      *)
(* With pair k made of places k and n+1-k of that order, the round-1       *)
(* matches show the order.                                                  *)
(***************************************************************************)
\* q comes before r in the claimed order (i, j: their places in the store)
C24_Before(q, i, r, j) ==
    \/ q.seed # Null /\ r.seed # Null /\ q.seed < r.seed
    \/ q.seed # Null /\ r.seed # Null /\ q.seed = r.seed /\ i < j
    \/ q.seed # Null /\ r.seed = Null
    \/ q.seed = Null /\ r.seed = Null /\ i < j

\* the id of the participant at a place of the claimed order
C24_Placed(ps, place) ==
    LET i == CHOOSE i \in DOMAIN ps :
                Cardinality({ j \in DOMAIN ps : C24_Before(ps[j], j, ps[i], i) })
                   = place - 1
    IN  ps[i].id

C24_PairingOrder ==
    [][\A tid \in TournamentIds :
          Start(tid) =>
             LET ps == FindByTournament(participants, tid)
                 n == Len(ps)
             IN  \A m \in RoundOf(matches', tid, 1) :
                    LET k == IndexInRound(matches', m) + 1 IN
                    /\ m.participant1Id = C24_Placed(ps, k)
                    /\ m.participant2Id = C24_Placed(ps, n + 1 - k)]_vars

\* two participants share seed 2, one has a seed above 999, one has none: the
\* equal seeds in stored order, then the high seed, the unseeded one last
C24_Witness ==
    /\ outcome = [op |-> "start", err |-> "ok"]
    /\ [i \in DOMAIN participants |-> participants[i].seed] = <<Null, 1000, 2, 2>>
    /\ \E a \in RoundOf(matches, 1, 1), b \in RoundOf(matches, 1, 1) :
          /\ a.matchNumber = 1 /\ a.participant1Id = 3 /\ a.participant2Id = 1
          /\ b.matchNumber = 2 /\ b.participant1Id = 4 /\ b.participant2Id = 2

(***************************************************************************)
(* C25: the seeding keeps the top seeds apart for as long as possible.     *)
(* With N participants seeded 1..N, as long as every match played went to  *)
(* the better (lower) seed, no match before the final round holds both     *)
(* seed 1 and seed 2.                                                      *)
(***************************************************************************)
C25_SeedOf(id) == ParticipantWithId(participants, id).seed

C25_SeededOneToN(tid) ==
    { q.seed : q \in ParticipantsOf(participants, tid) }
       = 1 .. tournaments[tid].participantCount

C25_BetterSeedWon(tid) ==
    \A m \in MatchesOf(matches, tid) :
       m.winnerId # Null =>
          /\ C25_SeedOf(m.winnerId) <= C25_SeedOf(m.participant1Id)
          /\ C25_SeedOf(m.winnerId) <= C25_SeedOf(m.participant2Id)

C25_TopSeedsApart ==
    \A tid \in TournamentIds :
       (C25_SeededOneToN(tid) /\ C25_BetterSeedWon(tid))
       => \A m \in MatchesOf(matches, tid) :
             (/\ m.round < tournaments[tid].totalRounds
              /\ m.participant1Id # Null /\ m.participant2Id # Null)
             => {C25_SeedOf(m.participant1Id), C25_SeedOf(m.participant2Id)} # {1, 2}

(***************************************************************************)
(* C26: from a started tournament of N participants, if every match that   *)
(* becomes upcoming is scored once in the end, with valid scores, the      *)
(* tournament reaches status completed in the end, after exactly N-1       *)
(* successful updateScore calls: every call completes one more match, and  *)
(* a completed tournament has N-1 completed matches.                       *)
(***************************************************************************)
C26_Completed(ms, tid) == { m \in MatchesOf(ms, tid) : m.status = "completed" }

\* a call is one that began on an upcoming match; its write of the match is
\* one more completed match, and its other steps leave the number alone
C26_OneMorePerCall ==
    [][\A tid \in TournamentIds :
          Cardinality(C26_Completed(matches', tid))
             = Cardinality(C26_Completed(matches, tid))
                  + (IF ScoreWriteMatch(1) THEN 1 ELSE 0)]_vars

C26_Played(tid) ==
    /\ (tournaments[tid].status = "ongoing") ~> (tournaments[tid].status = "completed")
    /\ [](tournaments[tid].status = "completed"
             => /\ running[1] = Idle
                /\ outcome = [op |-> "updateScore", err |-> "ok"]
                /\ Cardinality(C26_Completed(matches, tid))
                      = tournaments[tid].participantCount - 1)

C26_EventuallyCompleted ==
    /\ C26_OneMorePerCall
    /\ \A tid \in TournamentIds : C26_Played(tid)

\* the same for the tournaments of two participants or more
C26_PlayedFromTwo(tid) ==
    /\ (tournaments[tid].status = "ongoing" /\ tournaments[tid].participantCount >= 2)
          ~> (tournaments[tid].status = "completed")
    /\ [](tournaments[tid].status = "completed"
             => /\ running[1] = Idle
                /\ outcome = [op |-> "updateScore", err |-> "ok"]
                /\ Cardinality(C26_Completed(matches, tid))
                      = tournaments[tid].participantCount - 1)

C26_EventuallyCompletedFromTwo ==
    /\ C26_OneMorePerCall
    /\ \A tid \in TournamentIds : C26_PlayedFromTwo(tid)

(***************************************************************************)
(* C28: totalRounds is immutable once the bracket is generated.  While a   *)
(* tournament is in registration, ongoing or completed, no step changes    *)
(* its participantCount or totalRounds (update rejects a participantCount  *)
(* unless the status is draft), totalRounds = log2(participantCount), and  *)
(* the tournament has exactly participantCount - 1 matches.                *)
(***************************************************************************)
C28_Generated(tid) ==
    tournaments[tid].status \in {"registration", "ongoing", "completed"}

C29_Slots(ms, tid, id) ==
    Cardinality({ m \in RoundOf(ms, tid, 1) : m.participant1Id = id })
       + Cardinality({ m \in RoundOf(ms, tid, 1) : m.participant2Id = id })

C29_Started(tid) ==
    /\ tournaments[tid].status = "registration"
    /\ Cardinality(ParticipantsOf(participants, tid)) = tournaments[tid].participantCount
    /\ tournaments'[tid].status = "ongoing"
    /\ \A m \in RoundOf(matches', tid, 1) :
          /\ m.status = "upcoming"
          /\ m.participant1Id # Null /\ m.participant2Id # Null
    /\ \A q \in ParticipantsOf(participants', tid) : C29_Slots(matches', tid, q.id) = 1
    /\ \A m \in MatchesOf(matches', tid) :
          m.round > 1 => /\ m.status = "pending"
                         /\ m.participant1Id = Null /\ m.participant2Id = Null

C29_Start ==
    [][\A tid \in TournamentIds :
          /\ (outcome' = [op |-> "start", err |-> "ok"] /\ Start(tid))
                => C29_Started(tid)
          /\ (outcome'.op = "start" /\ outcome'.err # "ok" /\ StartFails(tid))
                => RecordsUnchanged]_vars

(***************************************************************************)
(* C30: for every generated bracket and every round r,                     *)
(* getFirstMatchNumberOfRound(r) = 1 + the sum over k < r of               *)
(* participantCount / 2^k, which is the smallest stored matchNumber of     *)
(* round r; so the match that advanceWinner picks by index in the sorted   *)
(* list of round r+1 is the match numbered                                 *)
(* firstNumberOfRound(r+1) + floor(indexInRound / 2).                      *)
(***************************************************************************)
RECURSIVE C30_SumBelow(_, _)
C30_SumBelow(participantCount, r) ==
    IF r <= 1 THEN 0
    ELSE participantCount \div (2 ^ (r - 1)) + C30_SumBelow(participantCount, r - 1)

C30_FirstOfRound(tid, r) ==
    /\ getFirstMatchNumberOfRound(tournaments, tid, r)
          = 1 + C30_SumBelow(tournaments[tid].participantCount, r)
    /\ \E m \in RoundOf(matches, tid, r) :
          /\ m.matchNumber = getFirstMatchNumberOfRound(tournaments, tid, r)
          /\ \A x \in RoundOf(matches, tid, r) : m.matchNumber <= x.matchNumber

C30_PickedByIndex(tid, m) ==
    LET matchIndexInRound ==
            m.matchNumber - getFirstMatchNumberOfRound(tournaments, tid, m.round)
        nextMatches == SortByMatchNumber(FindByRound(tid, m.round + 1))
    IN  /\ (matchIndexInRound \div 2) + 1 \in DOMAIN nextMatches
        /\ nextMatches[(matchIndexInRound \div 2) + 1].matchNumber
              = getFirstMatchNumberOfRound(tournaments, tid, m.round + 1)
                   + (matchIndexInRound \div 2)

C30_FirstNumberOfRound ==
    \A tid \in TournamentIds :
       MatchesOf(matches, tid) # {} =>
          /\ \A r \in 1 .. tournaments[tid].totalRounds : C30_FirstOfRound(tid, r)
          /\ \A m \in MatchesOf(matches, tid) :
                m.round < tournaments[tid].totalRounds => C30_PickedByIndex(tid, m)

\* of eight participants: the rounds begin at 1, 5 and 7; the winner of match
\* 3 went to match 6, the second of round 2
C30_Witness ==
    /\ tournaments[1].participantCount = 8
    /\ getFirstMatchNumberOfRound(tournaments, 1, 2) = 5
    /\ getFirstMatchNumberOfRound(tournaments, 1, 3) = 7
    /\ \E m \in RoundOf(matches, 1, 1), d \in RoundOf(matches, 1, 2) :
          /\ m.matchNumber = 3 /\ m.winnerId # Null
          /\ d.matchNumber = 6 /\ d.participant1Id = m.winnerId

(***************************************************************************)
(* C31: updateScore does not reject a match whose status is already        *)
(* completed.  Called again with valid scores on the completed final, it   *)
(* passes every check, runs finalizeTournament again and inserts another   *)
(* Result for the same tournament.                                         *)
(***************************************************************************)
C31_CompletedFinal(m) ==
    /\ m.status = "completed"
    /\ m.round = tournaments[m.tournamentId].totalRounds

C31_AnotherResult(m) ==
    /\ Len(results') = Len(results) + 1
    /\ SubSeq(results', 1, Len(results)) = results
    /\ results'[Len(results')].tournamentId = m.tournamentId
    /\ results'[Len(results')].championId = MatchWithId(matches', m.id).winnerId
    /\ Cardinality({ i \in DOMAIN results' :
                       results'[i].tournamentId = m.tournamentId }) >= 2

C31_RescoredFinal ==
    /\ [](\A m \in Range(matches) :
             C31_CompletedFinal(m) => UpdateScoreError(m.id, 1, 0) = "ok")
    /\ [][\A matchId \in MatchIds, score1, score2 \in Scores :
             (/\ Scored(matchId, score1, score2)
              /\ C31_CompletedFinal(MatchWithId(matches, matchId)))
             => C31_AnotherResult(MatchWithId(matches, matchId))]_vars

\* the final of four was scored twice, once for either side: two Results of
\* the tournament with different champions
C31_Witness ==
    /\ outcome = [op |-> "updateScore", err |-> "ok"]
    /\ tournaments[1].participantCount = 4
    /\ Len(results) = 2
    /\ results[1].tournamentId = 1 /\ results[2].tournamentId = 1
    /\ results[1].championId # results[2].championId
    /\ results[2].championId = MatchWithId(matches, 3).winnerId

(***************************************************************************)
(* BracketService.getRoundName on its own: any round number with any       *)
(* number of rounds (the function does not check its arguments)            *)
(***************************************************************************)
RoundsAll == 0 .. 12
TotalRoundsAll == 0 .. 8

InitNames ==
    /\ tournaments = [tid \in TournamentIds |-> NewTournament(8)]
    /\ participants = <<>>
    /\ matches = <<>>
    /\ results = <<>>
    /\ outcome = [op |-> "create", err |-> "ok"]
    /\ rescored = 0
    /\ running = [p \in Procs |-> Idle]

\* a call of getRoundName: the caller holds the name
GetRoundName(round, totalRounds) ==
    /\ outcome' = [op |-> "getRoundName", err |-> "ok", round |-> round,
                   totalRounds |-> totalRounds,
                   name |-> getRoundName(round, totalRounds)]
    /\ UNCHANGED <<tournaments, participants, matches, results, rescored, running>>

NextNames ==
    \E round \in RoundsAll, totalRounds \in TotalRoundsAll :
        GetRoundName(round, totalRounds)

SpecNames == InitNames /\ [][NextNames]_vars

(***************************************************************************)
(* C32: the round name depends on totalRounds - round: 0 -> "Final",       *)
(* 1 -> "Semi Final", 2 -> "Quarter Final", 3 -> "Round of 16",            *)
(* 4 -> "Round of 32", 5 -> "Round of 64", and any other value -> "Round r" *)
(* with r the round number.  (The statement as written, with the labels    *)
(* "Semifinal" and "Quarterfinal", is C32_AsStated.)                       *)
(***************************************************************************)
C32_Named == <<"Final", "Semi Final", "Quarter Final",
               "Round of 16", "Round of 32", "Round of 64">>

C32_NamedAsStated == <<"Final", "Semifinal", "Quarterfinal",
                       "Round of 16", "Round of 32", "Round of 64">>

C32_Label(named, round, totalRounds) ==
    IF totalRounds - round \in 0 .. 5 THEN named[totalRounds - round + 1]
    ELSE "Round " \o ToString(round)

C32_RoundName ==
    outcome.op = "getRoundName"
    => outcome.name = C32_Label(C32_Named, outcome.round, outcome.totalRounds)

\* C32 with the labels written as one word, "Semifinal" and "Quarterfinal"
C32_AsStated ==
    outcome.op = "getRoundName"
    => outcome.name = C32_Label(C32_NamedAsStated, outcome.round, outcome.totalRounds)

\* the semi-final of a bracket of three rounds has been named
C32_Witness ==
    /\ outcome.op = "getRoundName"
    /\ outcome.totalRounds = 3 /\ outcome.round = 2
    /\ outcome.name = "Semi Final"

(***************************************************************************)
(* C33: in a generated bracket every non-final match has a destination     *)
(* match that exists, and non-final matches map one-to-one onto the        *)
(* participant slots of rounds 2..totalRounds: no two matches write the    *)
(* same slot and every later-round slot has exactly one feeder.            *)
(***************************************************************************)
\* an id no participant has, advanced to see where advanceWinner writes
C33_Marker == Len(participants) + 1

\* the (match id, slot) pairs advanceWinner writes for a match
C33_WrittenSlots(m) ==
    LET after == advanceWinner(matches, tournaments, m, C33_Marker) IN
    { <<id, slot>> \in (MatchIds \X {1, 2}) :
        /\ DBHas(after, id)
        /\ C23_Slot(DBGet(after, id), slot) = C33_Marker }

C33_NonFinal(tid) ==
    { m \in MatchesOf(matches, tid) : m.round < tournaments[tid].totalRounds }

C33_LaterSlots(tid) ==
    { <<x.id, slot>> : x \in { y \in MatchesOf(matches, tid) : y.round >= 2 },
                       slot \in {1, 2} }

\* the pairs (feeder id, written slot) of a tournament
C33_Feeds(tid) ==
    UNION { { <<m.id, w>> : w \in C33_WrittenSlots(m) } : m \in C33_NonFinal(tid) }

C33_FeedersOnto ==
    \A tid \in TournamentIds :
        LET feeds == C33_Feeds(tid) IN
        /\ \A m \in C33_NonFinal(tid) :
              /\ NextMatchOf(matches, tournaments, m) = "found"
              /\ Cardinality({ f \in feeds : f[1] = m.id }) = 1
              /\ \A f \in feeds :
                    f[1] = m.id
                    => /\ f[2] \in C33_LaterSlots(tid)
                       /\ MatchWithId(matches, f[2][1]).round = m.round + 1
        /\ \A w \in C33_LaterSlots(tid) :
              Cardinality({ f \in feeds : f[2] = w }) = 1

\* a bracket of eight is stored: seven matches, six of them feeding the six
\* slots of rounds 2 and 3
C33_Witness ==
    /\ tournaments[1].participantCount = 8
    /\ Cardinality(C33_NonFinal(1)) = 6
    /\ Cardinality(C33_LaterSlots(1)) = 6
    /\ \E m \in C33_NonFinal(1) :
          /\ m.matchNumber = 4
          /\ \E w \in C33_WrittenSlots(m) :
                MatchWithId(matches, w[1]).matchNumber = 6 /\ w[2] = 2

(***************************************************************************)
(* generate, start and updateScore alone: the states a tournament passes   *)
(* through when nothing is reset or deleted                                *)
(***************************************************************************)
NextScore ==
    \/ \E tid \in TournamentIds : Generate(tid)
    \/ \E tid \in TournamentIds : Start(tid)
    \/ \E matchId \in MatchIds, score1, score2 \in Scores :
          UpdateScore(matchId, score1, score2)

SpecScore == Init /\ [][NextScore]_vars

(***************************************************************************)
(* C34: in every state reachable by generate, start and updateScore, the   *)
(* match at index j of a round r >= 2 holds in participant1Id the winnerId *)
(* of the match at index 2j of round r-1 and in participant2Id the         *)
(* winnerId of the match at index 2j+1 (empty while that feeder has no     *)
(* winner).                                                                *)
(***************************************************************************)
C34_FeederWinner(m, k) ==
    LET feeders == AtIndex(matches, m.tournamentId, m.round - 1,
                           2 * IndexInRound(matches, m) + k)
    IN  IF Cardinality(feeders) = 1
        THEN (CHOOSE f \in feeders : TRUE).winnerId
        ELSE NotWhole

C34_SlotsHoldFeederWinners ==
    \A m \in Range(matches) :
        m.round >= 2
        => /\ m.participant1Id = C34_FeederWinner(m, 0)
           /\ m.participant2Id = C34_FeederWinner(m, 1)

\* of eight: a semi-final holds two winners, one of them put there by a
\* second scoring of its feeder, while the other semi-final waits for one
C34_Witness ==
    /\ tournaments[1].participantCount = 8
    /\ rescored = 1
    /\ \E m, n \in RoundOf(matches, 1, 2) :
          /\ m.participant1Id # Null /\ m.participant2Id # Null
          /\ m.participant1Id = C34_FeederWinner(m, 0)
          /\ n.participant1Id # Null /\ n.participant2Id = Null
          /\ C34_FeederWinner(n, 1) = Null

(***************************************************************************)
(* C35: in every state reachable by generate, start and updateScore, a     *)
(* match has a winnerId exactly when its status is completed, and then the *)
(* winnerId is one of its two participants and its scores are set,         *)
(* non-negative and unequal.                                               *)
(***************************************************************************)
C35_WinnerIffCompleted ==
    \A m \in Range(matches) :
        /\ (m.winnerId # Null) <=> (m.status = "completed")
        /\ m.status = "completed"
           => /\ m.winnerId \in {m.participant1Id, m.participant2Id}
              /\ m.score1 # NoScore /\ m.score2 # NoScore
              /\ m.score1 >= 0 /\ m.score2 >= 0
              /\ m.score1 # m.score2

(***************************************************************************)
(* C36: in every state reachable by generate, start and updateScore, each  *)
(* participant in a slot of a match that is not completed is active: an   *)
(* eliminated participant is never scheduled in a match still to be played. *)
(***************************************************************************)
C36_ScheduledAreActive ==
    \A m \in Range(matches) :
        m.status # "completed"
        => \A id \in {m.participant1Id, m.participant2Id} \ {Null} :
              \A q \in Range(participants) : q.id = id => q.status = "active"

(***************************************************************************)
(* C37: while a tournament is ongoing and each match is scored at most     *)
(* once, there is always at least one match with status upcoming, until    *)
(* the final is completed: the bracket never gets stuck with only pending  *)
(* and completed matches.                                                  *)
(***************************************************************************)
C37_Upcoming(tid) == { m \in MatchesOf(matches, tid) : m.status = "upcoming" }

\* no completed match has been scored again
C37_ScoredOnce == rescored = 0

C37_NeverStuck ==
    \A tid \in TournamentIds :
        (tournaments[tid].status = "ongoing" /\ C37_ScoredOnce)
        => C37_Upcoming(tid) # {}

\* the same for the tournaments of two participants or more
C37_NeverStuckFromTwo ==
    \A tid \in TournamentIds :
        (/\ tournaments[tid].status = "ongoing" /\ C37_ScoredOnce
         /\ tournaments[tid].participantCount >= 2)
        => /\ C37_Upcoming(tid) # {}
           /\ \A m \in C37_Upcoming(tid) : UpdateScoreError(m.id, 1, 0) = "ok"

(***************************************************************************)
(* C38: a successful updateScore on match m changes only m's scores,       *)
(* winnerId and status; the loser's participant record; one slot (and      *)
(* possibly the status) of at most one match of round+1; and the           *)
(* tournament's currentRound, or for the final the tournament's status,    *)
(* currentRound and end date plus one inserted Result.  Every other match  *)
(* and every other participant record is left unchanged.                   *)
(***************************************************************************)
\* the scored match keeps everything but scores, winnerId and status
C38_ScoredMatch(m, after) ==
    after = [m EXCEPT !.score1 = after.score1, !.score2 = after.score2,
                      !.winnerId = after.winnerId, !.status = after.status]

\* a match of the next round differs in one slot and possibly the status
C38_OneSlot(x, after) ==
    \/ after = [x EXCEPT !.participant1Id = after.participant1Id,
                         !.status = after.status]
    \/ after = [x EXCEPT !.participant2Id = after.participant2Id,
                         !.status = after.status]

C38_Matches(m) ==
    LET changed == { i \in DOMAIN matches : i # DBIndex(matches, m.id)
                                            /\ matches'[i] # matches[i] }
    IN
    /\ DOMAIN matches' = DOMAIN matches
    /\ C38_ScoredMatch(m, matches'[DBIndex(matches, m.id)])
    /\ Cardinality(changed) <= 1
    /\ \A i \in changed :
          /\ matches[i].tournamentId = m.tournamentId
          /\ matches[i].round = m.round + 1
          /\ C38_OneSlot(matches[i], matches'[i])

C38_Participants(m) ==
    LET loserId == CHOOSE id \in {m.participant1Id, m.participant2Id} :
                       id # MatchWithId(matches', m.id).winnerId
    IN
    /\ DOMAIN participants' = DOMAIN participants
    /\ \A i \in DOMAIN participants :
          IF participants[i].id = loserId
          THEN participants'[i] =
                  [participants[i] EXCEPT
                      !.status = participants'[i].status,
                      !.eliminatedAtRound = participants'[i].eliminatedAtRound]
          ELSE participants'[i] = participants[i]

C38_Tournament(m) ==
    LET tid == m.tournamentId IN
    /\ \A other \in TournamentIds \ {tid} : tournaments'[other] = tournaments[other]
    /\ IF m.round = tournaments[tid].totalRounds
       THEN /\ tournaments'[tid] =
                  [tournaments[tid] EXCEPT
                      !.status = tournaments'[tid].status,
                      !.currentRound = tournaments'[tid].currentRound,
                      !.endDate = tournaments'[tid].endDate]
            /\ Len(results') = Len(results) + 1
            /\ SubSeq(results', 1, Len(results)) = results
       ELSE /\ tournaments'[tid] =
                  [tournaments[tid] EXCEPT
                      !.currentRound = tournaments'[tid].currentRound]
            /\ results' = results

C38_UpdateScoreFrame ==
    [][\A matchId \in MatchIds, score1, score2 \in Scores :
          Scored(matchId, score1, score2)
          => /\ C38_Matches(MatchWithId(matches, matchId))
             /\ C38_Participants(MatchWithId(matches, matchId))
             /\ C38_Tournament(MatchWithId(matches, matchId))
             /\ running' = running]_vars

\* of eight: the last match of round 1 was scored; its loser is the fourth
\* eliminated, one semi-final took its second participant and became
\* upcoming, and currentRound moved to 2
C38_Witness ==
    /\ outcome = [op |-> "updateScore", err |-> "ok"]
    /\ tournaments[1].participantCount = 8
    /\ tournaments[1].status = "ongoing" /\ tournaments[1].currentRound = 2
    /\ \A m \in RoundOf(matches, 1, 1) : m.status = "completed"
    /\ \A m \in RoundOf(matches, 1, 2) : m.status = "upcoming"
    /\ Cardinality({ q \in Range(participants) : q.status = "eliminated" }) = 4
    /\ results = <<>>

(***************************************************************************)
(* Two tournaments in one store.  The collections are shared: the          *)
(* participants of the two are stored interleaved, as they were added, and *)
(* the matches of the one generated later follow those of the other.       *)
(***************************************************************************)
TournamentIdsBoth == {1, 2}

\* rosters as sequences of <<tournamentId, seed>> in order of insertion
RostersBoth ==
    { << <<1, 2>>, <<2, 1>>, <<2, 2>>, <<1, 1>> >>,
      << <<2, Null>>, <<1, 3>>, <<1, 1>>, <<2, 1>>, <<1, 4>>, <<1, 2>> >>,
      << <<1, 1>>, <<2, 4>>, <<2, 3>>, <<1, 2>>, <<2, 2>>, <<2, 1>> >> }

MatchIdsBoth == 1 .. 4

InitBoth ==
    /\ \E roster \in RostersBoth :
          /\ participants = [i \in DOMAIN roster |->
                                NewParticipant(i, roster[i][1], roster[i][2])]
          /\ tournaments = [tid \in TournamentIdsBoth |->
                NewTournament(Cardinality({ i \in DOMAIN roster :
                                              roster[i][1] = tid }))]
    /\ matches = <<>>
    /\ results = <<>>
    /\ outcome = [op |-> "create", err |-> "ok"]
    /\ rescored = 0
    /\ running = [p \in Procs |-> Idle]

\* reset of one of the two: the count of calls outside the usual course is
\* kept, the other tournament may be in the middle of its play
ResetOne(tid) ==
    /\ ResetStore(tid)
    /\ UNCHANGED <<rescored, running>>

NextBoth ==
    \/ \E tid \in TournamentIdsBoth : Generate(tid)
    \/ \E tid \in TournamentIdsBoth : Start(tid)
    \/ \E tid \in TournamentIdsBoth : AssignParticipants(tid)
    \/ \E matchId \in MatchIdsBoth, scores \in ScorePairsRace :
          UpdateScore(matchId, scores[1], scores[2])
    \/ \E tid \in TournamentIdsBoth : ResetOne(tid)

SpecBoth == InitBoth /\ [][NextBoth]_vars

(***************************************************************************)
(* C39: with two tournaments in the store, generate, assignParticipants,   *)
(* updateScore and reset applied to one tournament never create, change or *)
(* delete a match, participant, result or tournament record of the other,  *)
(* and each tournament's match numbers start at 1 independently.           *)
(***************************************************************************)
\* the records of every tournament but tid are the same before and after
C39_OthersUntouched(tid) ==
    \A other \in TournamentIdsBoth \ {tid} :
        /\ tournaments'[other] = tournaments[other]
        /\ FindByTournament(matches', other) = FindByTournament(matches, other)
        /\ FindByTournament(participants', other)
              = FindByTournament(participants, other)
        /\ FindByTournament(results', other) = FindByTournament(results, other)

C39_NumberedFromOne(tid) ==
    { m.matchNumber : m \in MatchesOf(matches, tid) }
        = 1 .. Cardinality(MatchesOf(matches, tid))

C39_TournamentsApart ==
    /\ [][/\ \A tid \in TournamentIdsBoth :
                (\/ outcome'.op = "generate" /\ Generate(tid)
                 \/ outcome'.op = "assignParticipants" /\ AssignParticipants(tid)
                 \/ outcome'.op = "start" /\ Start(tid)
                 \/ outcome'.op = "reset" /\ ResetOne(tid))
                => C39_OthersUntouched(tid)
           /\ \A matchId \in MatchIdsBoth, scores \in ScorePairsRace :
                Scored(matchId, scores[1], scores[2])
                => C39_OthersUntouched(MatchWithId(matches, matchId).tournamentId)
          ]_vars
    /\ [](\A tid \in TournamentIdsBoth : C39_NumberedFromOne(tid))

\* tournament 2 (four participants) was generated after tournament 1 (two),
\* played to its end and has its Result, while the match of tournament 1,
\* stored first and numbered 1 like the first of tournament 2, has been scored
C39_Witness ==
    /\ tournaments[1].participantCount = 2 /\ tournaments[2].participantCount = 4
    /\ tournaments[2].status = "completed"
    /\ tournaments[1].status = "completed"
    /\ Len(matches) = 4 /\ matches[1].tournamentId = 1
    /\ \A tid \in TournamentIdsBoth :
          \E m \in MatchesOf(matches, tid) :
              m.matchNumber = 1 /\ m.round = 1 /\ m.status = "completed"
    /\ Cardinality(ResultsOf(results, 1)) = 1
    /\ Cardinality(ResultsOf(results, 2)) = 1

(***************************************************************************)
(* C40: reset followed by generate and start, with the roster and seeds    *)
(* unchanged, reproduces the bracket as it was right after the first       *)
(* start: the same (round, matchNumber) pairs, the same round-1 pairings   *)
(* and slots, all later matches pending and empty, all participants        *)
(* active, status ongoing and currentRound = 1.  Every start of a bracket  *)
(* that generate has just stored, the first and those after a reset, ends  *)
(* in the state that generate and start give on an empty store.            *)
(***************************************************************************)
\* a bracket without the ids of its matches
C40_View(ms, tid) ==
    { [round |-> m.round, matchNumber |-> m.matchNumber,
       participant1Id |-> m.participant1Id, participant2Id |-> m.participant2Id,
       status |-> m.status, winnerId |-> m.winnerId,
       score1 |-> m.score1, score2 |-> m.score2] : m \in MatchesOf(ms, tid) }

\* generate on an empty store
C40_FirstGenerate(tid) ==
    GenerateMatches(<<>>, tid, tournaments[tid].participantCount)

\* generate and start on an empty store, with the roster as it is stored
C40_FirstStart(tid) ==
    LET fresh == C40_FirstGenerate(tid)
        ps == getByTournament(tid)
        sortedParticipants ==
            StableSort(ps, [a \in Range(ps), b \in Range(ps) |-> BySeed(a, b)])
    IN  AssignLoop(fresh, createSeedPairings(sortedParticipants),
                   SortByMatchNumber(SelectSeq(fresh, LAMBDA m : m.round = 1)), 1)

C40_AsFirstStart(ms, ps, ts, rs, tid) ==
    /\ C40_View(ms, tid) = C40_View(C40_FirstStart(tid), tid)
    /\ \A m \in MatchesOf(ms, tid) :
          IF m.round = 1
          THEN m.status = "upcoming" /\ m.winnerId = Null
               /\ m.participant1Id # Null /\ m.participant2Id # Null
          ELSE m.status = "pending" /\ m.winnerId = Null
               /\ m.participant1Id = Null /\ m.participant2Id = Null
               /\ m.score1 = NoScore /\ m.score2 = NoScore
    /\ \A q \in ParticipantsOf(ps, tid) :
          q.status = "active" /\ q.eliminatedAtRound = NoRound
    /\ ts[tid].status = "ongoing" /\ ts[tid].currentRound = 1
    /\ ResultsOf(rs, tid) = {}

C40_ResetReproduces ==
    [][\A tid \in TournamentIdsBoth :
          (/\ outcome'.op = "start"
           /\ C40_View(matches, tid) = C40_View(C40_FirstGenerate(tid), tid)
           /\ Start(tid))
          => C40_AsFirstStart(matches', participants', tournaments', results', tid)
      ]_vars

\* tournament 1 (four participants) was generated before tournament 2, then
\* reset, generated again and started: its matches are stored after the
\* match of tournament 2, which took the id after theirs
C40_Witness ==
    /\ outcome = [op |-> "start", err |-> "ok"]
    /\ tournaments[1].participantCount = 4 /\ tournaments[2].participantCount = 2
    /\ Len(matches) = 4
    /\ matches[1].tournamentId = 2 /\ matches[1].id = 4
    /\ matches[1].status = "completed"
    /\ C40_AsFirstStart(matches, participants, tournaments, results, 1)

====
